---------------------------- MODULE Spec2Model ----------------------------
(***************************************************************************)
(* A model of pathogenx: the Dataset (construction and clustering), the    *)
(* PrevalenceCalculator and the Wilson score interval.                     *)
(*                                                                         *)
(* The cells of the data tables are strings; a missing cell is NaN below.  *)
(* Numbers that the code holds as floats (proportions, interval bounds,    *)
(* ranks) are IEEE 754 doubles, computed bit for bit as numpy does.        *)
(***************************************************************************)
EXTENDS Integers, Sequences, FiniteSets, TLC

VARIABLES
    pc,             \* position of the caller: which call was made last
    counts,         \* _wilson_score_interval: argument counts (an array)
    denominators,   \* _wilson_score_interval: argument denominators
    wilson,         \* _wilson_score_interval: the returned tuple, per element
    cargs,          \* PrevalenceCalculator.__init__: the arguments given
    calculator,     \* the PrevalenceCalculator instance (None before construction)
    data,           \* PrevalenceCalculator.calculate: the table given (its copy)
    result,         \* PrevalenceResult.data of the last calculate()
    raised,         \* the exception raised by the last call, or None
    genotypes,      \* Dataset.__init__: the caller's genotype table
    metadata,       \* Dataset.__init__: the caller's metadata table, or None
    distances,      \* Dataset.__init__: the caller's (matrix, sample names), or None
    args,           \* Dataset.__init__: name and the column-set overrides
    self,           \* the Dataset instance: its attributes assigned so far
    call,           \* Dataset.calculate_clusters: the arguments of the last call
    warnings,       \* the warnings issued by the last call
    reader,         \* io.py: the from_flavour call, the reader it built, the load
    cli,            \* cli.py: the command line and what main() did with it
    app,            \* app/server.py: the inputs, effects and outputs of a session
    objects,        \* the tables held by result objects and by their callers
    wrapped,        \* __init__.py: a call of a function wrapped by require(...)
    plotter         \* app/plotters.py: a plot() call and what it produced

wilsonVars == <<counts, denominators, wilson>>
prevVars == <<cargs, calculator, data, result>>
datasetVars == <<genotypes, metadata, distances, args, self, call, warnings>>
restVars == <<reader, cli, app, objects, wrapped, plotter>>
lateVars == <<wrapped, plotter>>
vars == <<pc, counts, denominators, wilson, cargs, calculator, data, result, raised,
          genotypes, metadata, distances, args, self, call, warnings,
          reader, cli, app, objects, wrapped, plotter>>

NaN == "NaN"        \* a missing cell (pandas NaN) of a column of strings
None == [none |-> TRUE]     \* Python None
Some(v) == [some |-> v]     \* an optional argument or attribute that is set

(***************************************************************************)
(* Bounds of the model.                                                    *)
(***************************************************************************)
MaxN == 4       \* counts and denominators range over 0..MaxN
MaxArr == 2     \* length of the arrays given to _wilson_score_interval
MaxRows == 3    \* rows of the table given to calculate()

(***************************************************************************)
(* Generic helpers.                                                        *)
(***************************************************************************)
Range(s) == {s[i] : i \in 1..Len(s)}

SeqsUpTo(S, n) == UNION {[1..m -> S] : m \in 0..n}

Min(a, b) == IF a <= b THEN a ELSE b
Max(a, b) == IF a >= b THEN a ELSE b

(***************************************************************************)
(* IEEE 754 binary64 arithmetic (the float64 of numpy and pandas).         *)
(*                                                                         *)
(* A double is [sign, exp, man]: the value (-1)^sign * man * 2^exp, where  *)
(* man is a natural number of exactly ManBits bits held as a sequence of   *)
(* limbs (base 2^LimbBits, least significant first), or <<>> for zero.     *)
(* exp = ExpSpecial marks inf (man = <<>>) and nan.  Every operation       *)
(* computes the exact result and rounds it to nearest, ties to even.       *)
(***************************************************************************)
LimbBits == 15
Base == 2^LimbBits
ManBits == 53
ExpSpecial == 1024
GuardBits == 56

RECURSIVE BNorm(_)
BNorm(a) ==
    IF a = <<>> THEN <<>>
    ELSE IF a[Len(a)] = 0 THEN BNorm(SubSeq(a, 1, Len(a) - 1))
    ELSE a

RECURSIVE BFromInt(_)
BFromInt(n) == IF n = 0 THEN <<>> ELSE <<n % Base>> \o BFromInt(n \div Base)

Limb(a, i) == IF i <= Len(a) THEN a[i] ELSE 0

\* a + b + c from limb i on
RECURSIVE BAddC(_, _, _, _)
BAddC(a, b, i, c) ==
    IF i > Len(a) /\ i > Len(b) THEN (IF c = 0 THEN <<>> ELSE <<c>>)
    ELSE <<(Limb(a, i) + Limb(b, i) + c) % Base>>
            \o BAddC(a, b, i + 1, (Limb(a, i) + Limb(b, i) + c) \div Base)

BAdd(a, b) == BAddC(a, b, 1, 0)

\* a - b - c from limb i on, for a >= b
RECURSIVE BSubC(_, _, _, _)
BSubC(a, b, i, c) ==
    IF i > Len(a) THEN <<>>
    ELSE <<(a[i] - Limb(b, i) - c) % Base>>
            \o BSubC(a, b, i + 1, IF a[i] - Limb(b, i) - c < 0 THEN 1 ELSE 0)

BSub(a, b) == BNorm(BSubC(a, b, 1, 0))

RECURSIVE BCmpAt(_, _, _)
BCmpAt(a, b, i) ==
    IF i = 0 THEN 0
    ELSE IF a[i] # b[i] THEN (IF a[i] < b[i] THEN -1 ELSE 1)
    ELSE BCmpAt(a, b, i - 1)

\* -1, 0 or 1 as a < b, a = b or a > b
BCmp(a, b) ==
    IF Len(a) # Len(b) THEN (IF Len(a) < Len(b) THEN -1 ELSE 1)
    ELSE BCmpAt(a, b, Len(a))

\* a * d + c from limb i on, for one limb d
RECURSIVE BMulC(_, _, _, _)
BMulC(a, d, i, c) ==
    IF i > Len(a) THEN (IF c = 0 THEN <<>> ELSE <<c>>)
    ELSE <<(a[i] * d + c) % Base>> \o BMulC(a, d, i + 1, (a[i] * d + c) \div Base)

RECURSIVE BMulAt(_, _, _)
BMulAt(a, b, j) ==
    IF j > Len(b) THEN <<>>
    ELSE BAdd(BMulC(a, b[j], 1, 0), <<0>> \o BMulAt(a, b, j + 1))

BMul(a, b) == BNorm(BMulAt(a, b, 1))

RECURSIVE Zeros(_)
Zeros(n) == IF n = 0 THEN <<>> ELSE <<0>> \o Zeros(n - 1)

\* a * 2^k
BShl(a, k) ==
    IF a = <<>> THEN <<>>
    ELSE Zeros(k \div LimbBits) \o BMulC(a, 2^(k % LimbBits), 1, 0)

RECURSIVE BShrAt(_, _, _)
BShrAt(a, i, r) ==
    IF i > Len(a) THEN <<>>
    ELSE <<(a[i] \div 2^r) + (Limb(a, i + 1) % 2^r) * 2^(LimbBits - r)>>
            \o BShrAt(a, i + 1, r)

\* a \div 2^k
BShr(a, k) == BNorm(BShrAt(a, k \div LimbBits + 1, k % LimbBits))

RECURSIVE IntBits(_)
IntBits(n) == IF n = 0 THEN 0 ELSE 1 + IntBits(n \div 2)

\* the number of bits of a
BBits(a) == IF a = <<>> THEN 0 ELSE (Len(a) - 1) * LimbBits + IntBits(a[Len(a)])

\* bit i of a (bit 0 is the least significant)
BBit(a, i) == (Limb(a, i \div LimbBits + 1) \div 2^(i % LimbBits)) % 2

BOdd(a) == a # <<>> /\ a[1] % 2 = 1

\* one step of long division by b: r2 is the remainder with the next bit of
\* the dividend brought down
DivPut(b, s, r2, fits) ==
    [i |-> s.i - 1,
     q |-> BMulC(s.q, 2, 1, IF fits THEN 1 ELSE 0),
     r |-> IF fits THEN BSub(r2, b) ELSE r2]

DivTry(b, s, r2) == DivPut(b, s, r2, BCmp(r2, b) >= 0)

DivBit(a, b, s) == DivTry(b, s, BMulC(s.r, 2, 1, BBit(a, s.i)))

\* long division of a by b > 0 from the state s on: s.i is the next bit of a
\* to bring down, s.q and s.r the quotient and remainder so far
RECURSIVE BDivStep(_, _, _)
BDivStep(a, b, s) == IF s.i < 0 THEN s ELSE BDivStep(a, b, DivBit(a, b, s))

SqrtTry(a, s, c) == [i |-> s.i - 1, r |-> IF BCmp(BMul(c, c), a) <= 0 THEN c ELSE s.r]

\* one step of the square root: bit s.i of the root is set when the square fits
SqrtBit(a, s) == SqrtTry(a, s, BAdd(s.r, BShl(<<1>>, s.i)))

RECURSIVE BSqrtStep(_, _)
BSqrtStep(a, s) == IF s.i < 0 THEN s ELSE BSqrtStep(a, SqrtBit(a, s))

\* the integer part of the square root of a
BSqrt(a) == BSqrtStep(a, [i |-> (BBits(a) + 1) \div 2, r |-> <<>>]).r

FloatZero == [sign |-> 0, exp |-> 0, man |-> <<>>]
FloatNaN == [sign |-> 0, exp |-> ExpSpecial, man |-> <<1>>]
FloatInf(sign) == [sign |-> sign, exp |-> ExpSpecial, man |-> <<>>]
IsNaN(x) == x.exp = ExpSpecial /\ x.man # <<>>
IsInf(x) == x.exp = ExpSpecial /\ x.man = <<>>
IsZero(x) == x.exp # ExpSpecial /\ x.man = <<>>

\* a mantissa of ManBits bits, or of one more after a carry
Pack(sign, e, m) ==
    IF BBits(m) > ManBits THEN [sign |-> sign, exp |-> e + 1, man |-> BShr(m, 1)]
    ELSE [sign |-> sign, exp |-> e, man |-> m]

\* c compares what is cut off with one half of the last place kept: ties
\* go to the even mantissa
RoundUp(sign, e, q, c, sticky) ==
    Pack(sign, e, IF c > 0 \/ (c = 0 /\ (sticky \/ BOdd(q))) THEN BAdd(q, <<1>>) ELSE q)

\* q is n without its last sh bits
RoundCut(sign, n, e, sticky, sh, q) ==
    RoundUp(sign, e, q, BCmp(BSub(n, BShl(q, sh)), BShl(<<1>>, sh - 1)), sticky)

RoundBits(sign, n, e, sticky, sh) ==
    IF sh <= 0 THEN [sign |-> sign, exp |-> e + sh, man |-> BShl(n, -sh)]
    ELSE RoundCut(sign, n, e + sh, sticky, sh, BShr(n, sh))

\* the double nearest to (-1)^sign * (n + f) * 2^e, where 0 <= f < 1 and
\* sticky tells whether f > 0.  With sticky, n has more than ManBits bits.
Round(sign, n, e, sticky) ==
    IF n = <<>> THEN FloatZero ELSE RoundBits(sign, n, e, sticky, BBits(n) - ManBits)

\* the float64 of a non-negative integer below 2^ManBits: it is exact
Float(n) ==
    IF n = 0 THEN FloatZero
    ELSE [sign |-> 0, exp |-> IntBits(n) - ManBits,
          man |-> BShl(BFromInt(n), ManBits - IntBits(n))]

FNeg(x) == IF IsNaN(x) \/ IsZero(x) THEN x ELSE [x EXCEPT !.sign = 1 - x.sign]

\* c compares the magnitudes a and b, both in units of 2^e
AddCmp(sx, a, sy, b, e, c) ==
    Round(IF c >= 0 THEN sx ELSE sy,
          IF sx = sy THEN BAdd(a, b) ELSE IF c >= 0 THEN BSub(a, b) ELSE BSub(b, a),
          e, FALSE)

AddMan(sx, a, sy, b, e) == AddCmp(sx, a, sy, b, e, IF sx = sy THEN 1 ELSE BCmp(a, b))

AddAt(x, y, e) ==
    AddMan(x.sign, BShl(x.man, x.exp - e), y.sign, BShl(y.man, y.exp - e), e)

FAdd(x, y) ==
    IF IsNaN(x) \/ IsNaN(y) THEN FloatNaN
    ELSE IF IsInf(x) THEN (IF IsInf(y) /\ x.sign # y.sign THEN FloatNaN ELSE x)
    ELSE IF IsInf(y) \/ IsZero(x) THEN y
    ELSE IF IsZero(y) THEN x
    ELSE AddAt(x, y, IF x.exp <= y.exp THEN x.exp ELSE y.exp)

FSub(x, y) == FAdd(x, FNeg(y))

FMul(x, y) ==
    IF IsNaN(x) \/ IsNaN(y) THEN FloatNaN
    ELSE IF IsInf(x) \/ IsInf(y)
    THEN (IF IsZero(x) \/ IsZero(y) THEN FloatNaN ELSE FloatInf((x.sign + y.sign) % 2))
    ELSE IF IsZero(x) \/ IsZero(y) THEN FloatZero
    ELSE Round((x.sign + y.sign) % 2, BMul(x.man, y.man), x.exp + y.exp, FALSE)

DivRound(x, y, d) ==
    Round((x.sign + y.sign) % 2, d.q, x.exp - GuardBits - y.exp, d.r # <<>>)

\* both mantissas have ManBits bits: the long division of
\* x.man * 2^GuardBits by y.man, taken up after its first quotient bit
DivMan(x, y, fits) ==
    DivRound(x, y, BDivStep(BShl(x.man, GuardBits), y.man,
                            [i |-> GuardBits - 1,
                             q |-> IF fits THEN <<1>> ELSE <<>>,
                             r |-> IF fits THEN BSub(x.man, y.man) ELSE x.man]))

\* x / y as numpy divides: x / 0 is inf (nan for 0 / 0), with a warning only
FDiv(x, y) ==
    IF IsNaN(x) \/ IsNaN(y) THEN FloatNaN
    ELSE IF IsInf(x) THEN (IF IsInf(y) THEN FloatNaN ELSE FloatInf((x.sign + y.sign) % 2))
    ELSE IF IsInf(y) THEN FloatZero
    ELSE IF IsZero(y) THEN (IF IsZero(x) THEN FloatNaN ELSE FloatInf((x.sign + y.sign) % 2))
    ELSE IF IsZero(x) THEN FloatZero
    ELSE DivMan(x, y, BCmp(x.man, y.man) >= 0)

SqrtRound(n, e, r) == Round(0, r, e, BMul(r, r) # n)

\* the root of n * 2^(2 e)
SqrtMan(n, e) == SqrtRound(n, e, BSqrt(n))

\* the exponent is made even, at or below that of x
SqrtAt(x, odd) ==
    SqrtMan(BShl(x.man, GuardBits + odd), (x.exp - odd - GuardBits) \div 2)

\* np.sqrt
FSqrt(x) ==
    IF IsNaN(x) \/ (x.sign = 1 /\ ~IsZero(x)) THEN FloatNaN
    ELSE IF IsInf(x) \/ IsZero(x) THEN x
    ELSE SqrtAt(x, x.exp % 2)

\* -1, 0 or 1 as |x| < |y|, |x| = |y| or |x| > |y|
MagCmp(x, y) ==
    IF IsZero(x) THEN (IF IsZero(y) THEN 0 ELSE -1)
    ELSE IF IsZero(y) THEN 1
    ELSE IF x.exp # y.exp THEN (IF x.exp < y.exp THEN -1 ELSE 1)
    ELSE BCmp(x.man, y.man)

Signum(x) == IF IsZero(x) THEN 0 ELSE 1 - 2 * x.sign

SignCmp(x, y, sx, sy) ==
    IF sx # sy THEN (IF sx < sy THEN -1 ELSE 1) ELSE sx * MagCmp(x, y)

\* -1, 0 or 1 as x < y, x = y or x > y, for x and y not nan
FCmp(x, y) == SignCmp(x, y, Signum(x), Signum(y))

\* comparisons are false when an operand is nan
FLess(x, y) == ~IsNaN(x) /\ ~IsNaN(y) /\ FCmp(x, y) < 0
FLeq(x, y) == ~IsNaN(x) /\ ~IsNaN(y) /\ FCmp(x, y) <= 0
FEq(x, y) == ~IsNaN(x) /\ ~IsNaN(y) /\ FCmp(x, y) = 0

\* .clip(lo, hi): nan stays nan
Clip(x, lo, hi) ==
    IF IsNaN(x) THEN x
    ELSE IF FLess(x, lo) THEN lo
    ELSE IF FLess(hi, x) THEN hi
    ELSE x

(***************************************************************************)
(* _wilson_score_interval (calculators.py).  Every operation is the        *)
(* float64 operation of the code, in the order in which the code applies   *)
(* them.                                                                   *)
(***************************************************************************)
\* norm.ppf(1 - (0.05 / 2)) = 1.959963984540054 = 8826893070434180 * 2^-52
z == [sign |-> 0, exp |-> -52, man |-> <<32644, 25565, 28684, 250>>]

\* z ** 2
ZSquared == FMul(z, z)

\* (counts / denominators).clip(0, 1)
WilsonProp(k, n) == Clip(FDiv(Float(k), Float(n)), FloatZero, Float(1))

\* (counts + z ** 2 / 2) / (denominators + z ** 2)
WilsonCenter(k, n) ==
    FDiv(FAdd(Float(k), FDiv(ZSquared, Float(2))), FAdd(Float(n), ZSquared))

\* prop * (1 - prop)
Variance(prop) == FMul(prop, FSub(Float(1), prop))

\* mutation of WilsonWidth: the z ** 2 / 4 term under the root is dropped
WilsonWidthNoContinuity(k, n) ==
    FMul(FDiv(z, FAdd(Float(n), ZSquared)),
         FSqrt(FMul(Variance(WilsonProp(k, n)), Float(n))))

\* (z / (denominators + z ** 2)) * np.sqrt((prop * (1 - prop) * denominators) + (z ** 2 / 4))
WilsonWidth(k, n) ==
    FMul(FDiv(z, FAdd(Float(n), ZSquared)),
         FSqrt(FAdd(FMul(Variance(WilsonProp(k, n)), Float(n)),
                    FDiv(ZSquared, Float(4)))))

\* np.sqrt(prop * (1 - prop) / denominators)
WilsonSe(k, n) == FSqrt(FDiv(Variance(WilsonProp(k, n)), Float(n)))

\* prop, se, center - width, center + width
Interval(prop, se, center, width) ==
    [prop  |-> prop,
     se    |-> se,
     lower |-> FSub(center, width),
     upper |-> FAdd(center, width)]

\* the returned tuple for one element
WilsonScore(k, n) ==
    Interval(WilsonProp(k, n), WilsonSe(k, n), WilsonCenter(k, n), WilsonWidth(k, n))

\* the scores of the arguments 0..WilsonMax, computed once
WilsonMax == Max(MaxN, MaxRows)

RECURSIVE WilsonRow(_, _)
WilsonRow(k, n) ==
    IF n < 0 THEN <<>> ELSE Append(WilsonRow(k, n - 1), WilsonScore(k, n))

RECURSIVE WilsonRows(_)
WilsonRows(k) ==
    IF k < 0 THEN <<>> ELSE Append(WilsonRows(k - 1), WilsonRow(k, WilsonMax))

WilsonScores == WilsonRows(WilsonMax)

WilsonScoreOf(k, n) == WilsonScores[k + 1][n + 1]

\* the function is vectorised over its two array arguments
_wilson_score_interval(cs, ds) ==
    [i \in 1..Len(cs) |-> WilsonScoreOf(cs[i], ds[i])]

(***************************************************************************)
(* Specification SpecWilson: the Wilson score computation on bounded       *)
(* arrays.                                                                 *)
(***************************************************************************)
WilsonIdle == counts = <<>> /\ denominators = <<>> /\ wilson = <<>>

PrevIdle == cargs = None /\ calculator = None /\ data = <<>> /\ result = <<>>

DatasetIdle ==
    /\ genotypes = None /\ metadata = None /\ distances = None /\ args = None
    /\ self = None /\ call = None /\ warnings = <<>>

LateIdle == wrapped = None /\ plotter = None
RestIdle == reader = None /\ cli = None /\ app = None /\ objects = None /\ LateIdle

WilsonInit ==
    /\ pc = "wilson_args"
    /\ \E m \in 1..MaxArr :
         /\ counts \in [1..m -> 0..MaxN]
         /\ denominators \in [1..m -> 0..MaxN]
    /\ wilson = <<>>
    /\ raised = None
    /\ PrevIdle
    /\ DatasetIdle
    /\ RestIdle

CallWilson ==
    /\ pc = "wilson_args"
    /\ wilson' = _wilson_score_interval(counts, denominators)
    /\ pc' = "wilson_done"
    /\ UNCHANGED <<counts, denominators, prevVars, raised, datasetVars, restVars>>

WilsonNext == CallWilson

SpecWilson == WilsonInit /\ [][WilsonNext]_vars

(***************************************************************************)
(* The bounds of the interval.                                             *)
(***************************************************************************)
WilsonDomain(i) ==
    /\ denominators[i] > 0
    /\ 0 <= counts[i]
    /\ counts[i] <= denominators[i]

\* 2^-50: four units in the last place of 1.0
Tolerance == [sign |-> 0, exp |-> -102, man |-> <<0, 0, 0, 128>>]

\* x <= y up to the tolerance
LeqWithin(x, y) == FLeq(x, FAdd(y, Tolerance))

DataColumns == {"K_locus", "Country", "Cluster"}
Categories == <<"a", "b">>          \* the cell values, in sorted order
Cells == Range(Categories) \cup {NaN}

\* calculate() reads its table only through len(), groupby(...).size() and
\* groupby(...).nunique(), whose results are ordered by the sorted group keys
\* and so do not depend on the order of the rows: tables are enumerated up
\* to row order (rows in non-decreasing code).  The Cluster column is
\* read through nunique() alone (it is no stratify column below), which
\* counts its values without looking at them: tables are enumerated up to
\* the names of the clusters (a category occurs in the Cluster column only
\* when the categories before it do).
Ord(v) == IF v = NaN THEN 0 ELSE CHOOSE i \in 1..Len(Categories) : Categories[i] = v

RowBase == Len(Categories) + 1

\* a row is numbered by its cells, K_locus first: the cell and the row of
\* a code
CellOf(d) == IF d = 0 THEN NaN ELSE Categories[d]
RowOf(code) ==
    [c \in DataColumns |->
        CellOf(IF c = "K_locus" THEN code \div (RowBase * RowBase)
               ELSE IF c = "Country" THEN (code \div RowBase) % RowBase
               ELSE code % RowBase)]

\* the non-decreasing sequences of n row codes
RECURSIVE CodeSeqs(_)
CodeSeqs(n) ==
    IF n = 0 THEN {<<>>}
    ELSE UNION {{Append(q, c) : c \in (IF n = 1 THEN 0 ELSE q[n - 1])..(RowBase * RowBase * RowBase - 1)} :
                q \in CodeSeqs(n - 1)}

ClustersOf(q) == {q[i] % RowBase : i \in 1..Len(q)} \ {0}

\* the tables, as the codes of their rows
TableCodes ==
    {q \in UNION {CodeSeqs(n) : n \in 0..MaxRows} :
        ClustersOf(q) = 1..Cardinality(ClustersOf(q))}

TableOf(q) == [i \in 1..Len(q) |-> RowOf(q[i])]

StratifyChoices == {<<"K_locus">>, <<"Country", "K_locus">>}
DenominatorChoices == {None, Some(""), Some("K_locus"), Some("Country"), Some("Cluster")}
AdjustChoices == {None, Some(<<>>), Some(<<"Cluster">>)}
NDistinctChoices == {None, Some(<<"Country">>)}

\* the arguments given to PrevalenceCalculator.__init__
CalculatorArgs ==
    [stratify_by : StratifyChoices, adjust_for : AdjustChoices,
     n_distinct : NDistinctChoices, denominator : DenominatorChoices]

\* truthiness of an optional list argument (None and [] are false)
Truthy(x) == x # None /\ x.some # <<>>

\* truthiness of an optional str argument (None and '' are false)
TruthyStr(x) == x # None /\ x.some # ""

\* PrevalenceCalculator.__init__: the denominator it stores
\* (if not denominator and len(stratify_by) > 1: denominator = stratify_by[0])
ResolveDenominator(stratify_by, denominator) ==
    IF ~TruthyStr(denominator) /\ Len(stratify_by) > 1
    THEN Some(stratify_by[1])
    ELSE denominator

\* ---- pandas groupby (dropna=True, sort=True) -----------------------------
KeyOf(row, cols) == [i \in 1..Len(cols) |-> row[cols[i]]]

KeyHasNaN(key) == \E i \in 1..Len(key) : key[i] = NaN

GroupKeys(rows, cols) ==
    {k \in {KeyOf(rows[i], cols) : i \in 1..Len(rows)} : ~KeyHasNaN(k)}

GroupMembers(rows, cols, key) ==
    {i \in 1..Len(rows) : KeyOf(rows[i], cols) = key}

\* groupby(cols).size()
GroupSize(rows, cols, key) == Cardinality(GroupMembers(rows, cols, key))

\* groupby(cols)[col].nunique()   (dropna=True)
GroupNUnique(rows, cols, key, col) ==
    Cardinality({rows[i][col] : i \in GroupMembers(rows, cols, key)} \ {NaN})

\* data[col].nunique()
NUnique(rows, col) ==
    Cardinality({rows[i][col] : i \in 1..Len(rows)} \ {NaN})

\* lexicographic order of two tuples of integers
LexLess(a, b) ==
    \E i \in 1..Len(a) : a[i] < b[i] /\ \A j \in 1..(i - 1) : a[j] = b[j]

\* order of two group keys (tuples of cells)
KeyLess(a, b) ==
    LexLess([i \in 1..Len(a) |-> Ord(a[i])], [i \in 1..Len(b) |-> Ord(b[i])])

\* the group keys in sorted order
SortedKeys(S) ==
    [p \in 1..Cardinality(S) |->
        CHOOSE k \in S : Cardinality({k2 \in S : KeyLess(k2, k)}) = p - 1]

\* ---- calculate(), steps 1 to 4 -------------------------------------------
AdjCol(calc) == IF Truthy(calc.adjust_for) THEN Some(calc.adjust_for.some[1]) ELSE None

\* step 1: denominators['raw'] for the stratum with denominator value v
DenominatorRaw(calc, rows, v) ==
    IF TruthyStr(calc.denominator)
    THEN GroupSize(rows, <<calc.denominator.some>>, <<v>>)
    ELSE Len(rows)

\* step 1: denominators['adj']
DenominatorAdj(calc, rows, v) ==
    IF TruthyStr(calc.denominator)
    THEN GroupNUnique(rows, <<calc.denominator.some>>, <<v>>, AdjCol(calc).some)
    ELSE NUnique(rows, AdjCol(calc).some)

Merge(f, g) == [x \in (DOMAIN f) \cup (DOMAIN g) |-> IF x \in DOMAIN f THEN f[x] ELSE g[x]]

Columns(kind, w) ==
    [c \in {"prop." \o kind, "se." \o kind, "lower." \o kind, "upper." \o kind} |->
        IF c = "prop." \o kind THEN w.prop
        ELSE IF c = "se." \o kind THEN w.se
        ELSE IF c = "lower." \o kind THEN w.lower
        ELSE w.upper]

WilsonColumns(kind, k, n) == Columns(kind, WilsonScoreOf(k, n))

\* steps 2 to 4: the row of the stratum with the given key
StratumRow(calc, rows, key) ==
    LET sb     == calc.stratify_by
        keyc   == [c \in Range(sb) |-> key[CHOOSE i \in 1..Len(sb) : sb[i] = c]]
        dv     == IF TruthyStr(calc.denominator) THEN keyc[calc.denominator.some] ELSE NaN
        cntraw == GroupSize(rows, sb, key)
        denraw == DenominatorRaw(calc, rows, dv)
        raw    == Merge([c \in {"count.raw", "denominator.raw"} |->
                           IF c = "count.raw" THEN cntraw ELSE denraw],
                        WilsonColumns("raw", cntraw, denraw))
        cntadj == GroupNUnique(rows, sb, key, AdjCol(calc).some)
        denadj == DenominatorAdj(calc, rows, dv)
        adj    == IF AdjCol(calc) = None THEN <<>>
                  ELSE Merge([c \in {"count.adj", "denominator.adj"} |->
                                IF c = "count.adj" THEN cntadj ELSE denadj],
                             WilsonColumns("adj", cntadj, denadj))
        nd     == IF Truthy(calc.n_distinct)
                  THEN [c \in {"# " \o col : col \in Range(calc.n_distinct.some)} |->
                          GroupNUnique(rows, sb, key,
                            CHOOSE col \in Range(calc.n_distinct.some) : c = "# " \o col)]
                  ELSE <<>>
    IN  Merge(keyc, Merge(raw, Merge(adj, nd)))

\* the strata in the order of reset_index(): sorted group keys
StrataRows(calc, rows) ==
    LET keys == SortedKeys(GroupKeys(rows, calc.stratify_by))
    IN  [p \in 1..Len(keys) |-> StratumRow(calc, rows, keys[p])]

\* ---- step 5: sort_values(by=sort_by, ascending=False), a stable sort -----
SortBy(calc) ==
    IF Truthy(calc.adjust_for) THEN <<"denominator.adj", "count.adj">>
    ELSE <<"denominator.raw", "count.raw">>

SortsBefore(t, by, i, j) ==
    \/ LexLess(KeyOf(t[j], by), KeyOf(t[i], by))
    \/ (KeyOf(t[j], by) = KeyOf(t[i], by) /\ i < j)

SortValues(t, by) ==
    [p \in 1..Len(t) |->
        t[CHOOSE i \in 1..Len(t) :
            Cardinality({j \in 1..Len(t) : SortsBefore(t, by, j, i)}) = p - 1]]

\* ---- step 6: rank(method='first', ascending=False) within groups ---------
PropGreater(p, q) == FLess(q, p)
PropEqual(p, q) == FEq(p, q)

RankGroup(calc, t, i) ==
    IF TruthyStr(calc.denominator)
    THEN {j \in 1..Len(t) : t[j][calc.denominator.some] = t[i][calc.denominator.some]}
    ELSE 1..Len(t)

\* mutation of RankFirst: rank(method='min'), tied rows share a rank
RankMin(calc, t, i, col) ==
    IF IsNaN(t[i][col]) THEN FloatNaN
    ELSE Float(1 + Cardinality({j \in RankGroup(calc, t, i) :
                 ~IsNaN(t[j][col]) /\ PropGreater(t[j][col], t[i][col])}))

RankFirst(calc, t, i, col) ==
    IF IsNaN(t[i][col]) THEN FloatNaN
    ELSE Float(1 + Cardinality({j \in RankGroup(calc, t, i) :
                 /\ ~IsNaN(t[j][col])
                 /\ \/ PropGreater(t[j][col], t[i][col])
                    \/ (PropEqual(t[j][col], t[i][col]) /\ j < i)}))

WithRanks(calc, t) ==
    [i \in 1..Len(t) |->
        Merge(t[i],
          IF AdjCol(calc) = None
          THEN [c \in {"rank.raw"} |-> RankFirst(calc, t, i, "prop.raw")]
          ELSE [c \in {"rank.raw", "rank.adj"} |->
                  IF c = "rank.raw" THEN RankFirst(calc, t, i, "prop.raw")
                  ELSE RankFirst(calc, t, i, "prop.adj")])]

\* PrevalenceCalculator.calculate: the table of the result
Calculate(calc, rows) ==
    WithRanks(calc, SortValues(StrataRows(calc, rows), SortBy(calc)))

(***************************************************************************)
(* Specification SpecPrevalence: construct a PrevalenceCalculator, then    *)
(* call calculate() on a table of at most MaxRows rows.  calculate() does  *)
(* not change the calculator, so one call per behaviour shows every        *)
(* result.                                                                 *)
(***************************************************************************)
PrevInit ==
    /\ pc = "calculator_args"
    /\ cargs \in CalculatorArgs
    /\ calculator = None
    /\ data = <<>>
    /\ result = <<>>
    /\ raised = None
    /\ WilsonIdle
    /\ DatasetIdle
    /\ RestIdle

\* PrevalenceCalculator.__init__
PrevalenceCalculatorInit ==
    /\ pc = "calculator_args"
    /\ pc' = "constructed"
    /\ IF TruthyStr(cargs.denominator) /\ cargs.denominator.some \notin Range(cargs.stratify_by)
       THEN /\ raised' = [type |-> "ValueError",
                          msg |-> "If provided, 'denominator' must be in 'stratify_by'."]
            /\ calculator' = None
       ELSE /\ raised' = None
            /\ calculator' =
                 [stratify_by |-> cargs.stratify_by,
                  adjust_for  |-> cargs.adjust_for,
                  n_distinct  |-> cargs.n_distinct,
                  denominator |-> ResolveDenominator(cargs.stratify_by, cargs.denominator)]
    /\ UNCHANGED <<cargs, data, result, wilsonVars, datasetVars, restVars>>

\* the columns calculate() reads: groupby(self.stratify_by), the adjustment
\* column and the n_distinct columns (the denominator is a stratify column)
ColumnsRead(calc) ==
    Range(calc.stratify_by)
        \cup (IF AdjCol(calc) # None THEN {AdjCol(calc).some} ELSE {})
        \cup (IF Truthy(calc.n_distinct) THEN Range(calc.n_distinct.some) ELSE {})

\* a table whose cells in the columns the calculator does not read are
\* left missing (the result does not depend on them)
TablesFor(calc) ==
    {q \in TableCodes :
        \A i \in 1..Len(q) : \A c \in DataColumns \ ColumnsRead(calc) : RowOf(q[i])[c] = NaN}

\* PrevalenceCalculator.calculate(dataset) with a DataFrame argument
CallCalculate ==
    /\ pc = "constructed"
    /\ calculator # None
    /\ \E q \in TablesFor(calculator) :
         /\ data' = TableOf(q)
         /\ result' = Calculate(calculator, TableOf(q))
    /\ pc' = "calculated"
    /\ raised' = None
    /\ UNCHANGED <<cargs, calculator, wilsonVars, datasetVars, restVars>>

PrevNext == PrevalenceCalculatorInit \/ CallCalculate

SpecPrevalence == PrevInit /\ [][PrevNext]_vars

(***************************************************************************)
(* Claims about PrevalenceCalculator.calculate.                            *)
(***************************************************************************)
RECURSIVE SumColumn(_, _)
SumColumn(t, col) ==
    IF t = <<>> THEN 0 ELSE t[1][col] + SumColumn(Tail(t), col)

SingleGlobal ==
    /\ pc = "calculated"
    /\ Len(calculator.stratify_by) = 1
    /\ calculator.denominator = None

HasMissing(col) == \E i \in 1..Len(data) : data[i][col] = NaN

\* C7: with a single stratify column and no denominator, on any table
\* (missing values in the stratify column included) the count.raw values sum
\* to the number of input rows and every denominator.raw is that number.
C7_CountConservation ==
    SingleGlobal =>
      /\ SumColumn(result, "count.raw") = Len(data)
      /\ \A i \in 1..Len(result) : result[i]["denominator.raw"] = Len(data)

\* the same statement on the tables without a missing stratify value
C7_CountConservationNoMissing ==
    (SingleGlobal /\ ~HasMissing(calculator.stratify_by[1])) =>
      /\ SumColumn(result, "count.raw") = Len(data)
      /\ \A i \in 1..Len(result) : result[i]["denominator.raw"] = Len(data)

\* C8: no row of a result has a zero denominator, raw or adjusted, also when
\* rows have a missing value in the adjustment column.
C8_NoZeroDenominator ==
    pc = "calculated" =>
      \A i \in 1..Len(result) :
        /\ result[i]["denominator.raw"] > 0
        /\ (AdjCol(calculator) # None => result[i]["denominator.adj"] > 0)

\* the raw half of C8 alone
C8_RawDenominatorPositive ==
    pc = "calculated" =>
      \A i \in 1..Len(result) : result[i]["denominator.raw"] > 0

\* the rows of the result in the denominator group of row i
ResultGroup(i) ==
    IF ~TruthyStr(calculator.denominator)
    THEN 1..Len(result)
    ELSE {j \in 1..Len(result) :
            result[j][calculator.denominator.some] = result[i][calculator.denominator.some]}

\* C9: within each denominator group (the whole result without a denominator
\* column) the rank.raw values are exactly 1..k for k strata, without
\* duplicates, and a larger prop.raw never has a larger rank.
C9_RankCompleteness ==
    pc = "calculated" =>
      \A i \in 1..Len(result) :
        LET g == ResultGroup(i) IN
        /\ {result[j]["rank.raw"] : j \in g} = {Float(r) : r \in 1..Cardinality(g)}
        /\ \A j \in g :
             PropGreater(result[i]["prop.raw"], result[j]["prop.raw"])
               => PropGreater(result[j]["rank.raw"], result[i]["rank.raw"])

\* two denominator groups, one of them with two strata tied in prop.raw
C9_Witness ==
    /\ pc = "calculated"
    /\ calculator.denominator # None
    /\ \E i, j, k \in 1..Len(result) :
         /\ i # j
         /\ j \in ResultGroup(i)
         /\ k \notin ResultGroup(i)
         /\ PropEqual(result[i]["prop.raw"], result[j]["prop.raw"])
         /\ result[i]["rank.raw"] # result[j]["rank.raw"]


(***************************************************************************)
(* Dataset (dataset.py).                                                   *)
(*                                                                         *)
(* A table is a record [index, columns, rows]: index is the sequence of    *)
(* sample names (the row labels, unique), columns the set of column names  *)
(* and rows[i] the cells of the sample index[i].  A sparse distance matrix *)
(* over m samples is held by its dense view, a function on (1..m)x(1..m)   *)
(* in which an entry that is not stored reads 0.                           *)
(*                                                                         *)
(* self is the instance under construction: a record of the attributes     *)
(* assigned so far.  calculate_clusters reads self._data and               *)
(* self.distances only, and acts on any instance that has both.            *)
(***************************************************************************)
MaxSamples == 3       \* samples of the genotype table
MaxThreshold == 1     \* calculate_clusters is called with distance in 0..MaxThreshold
DistanceValues == {0, 1, 2}
DefaultDistance == 20

Samples == 1..MaxSamples

\* the positions 1..n of a set of integers, ascending
SortedSeq(S) ==
    [p \in 1..Cardinality(S) |-> CHOOSE x \in S : Cardinality({y \in S : y < x}) = p - 1]

MaxOf(S) == CHOOSE x \in S : \A y \in S : y <= x
MinOf(S) == CHOOSE x \in S : \A y \in S : x <= y

PosOf(index, s) == CHOOSE i \in 1..Len(index) : index[i] = s

\* frame[col] = cells   (adds or overwrites the column)
SetColumn(t, col, cells) ==
    [index |-> t.index,
     columns |-> t.columns \cup {col},
     rows |-> [i \in 1..Len(t.rows) |->
                 [c \in t.columns \cup {col} |-> IF c = col THEN cells[i] ELSE t.rows[i][c]]]]

\* left.join(right, how='left')
JoinLeft(left, right) ==
    [index |-> left.index,
     columns |-> left.columns \cup right.columns,
     rows |-> [i \in 1..Len(left.rows) |->
                 [c \in left.columns \cup right.columns |->
                    IF c \in left.columns THEN left.rows[i][c]
                    ELSE IF left.index[i] \in Range(right.index)
                         THEN right.rows[PosOf(right.index, left.index[i])][c]
                         ELSE NaN]]]

\* frame.reindex(index)
Reindex(t, index) ==
    [index |-> index,
     columns |-> t.columns,
     rows |-> [p \in 1..Len(index) |->
                 IF index[p] \in Range(t.index)
                 THEN t.rows[PosOf(t.index, index[p])]
                 ELSE [c \in t.columns |-> NaN]]]

\* truthiness of an optional set argument (None and set() are false)
TruthySet(x) == x # None /\ x.some # {}

\* the table samples the loop of __init__ would find missing from the
\* distance index (reversed containment: a variant used to test C4)
MissingFromTable(tableIndex, index) ==
    SelectSeq(index, LAMBDA s : s \notin Range(tableIndex))

\* the samples of the table that are not in the distance index, in table order
MissingSamples(tableIndex, index) ==
    SelectSeq(tableIndex, LAMBDA s : s \notin Range(index))

DatasetError(sample) ==
    [type |-> "DatasetError", msg |-> "Sample {sample} not in index", sample |-> sample]

AttributeError(attr) ==
    [type |-> "AttributeError", msg |-> "'Dataset' object has no attribute", attr |-> attr]

\* Dataset.__init__
DatasetInit ==
    /\ pc = "dataset_args"
    /\ pc' = "dataset"
    /\ LET stamped == SetColumn(genotypes, "Dataset",
                                [i \in 1..Len(genotypes.index) |-> args.name])
           joined == IF metadata # None THEN JoinLeft(stamped, metadata.some) ELSE stamped
           missing == IF distances # None
                      THEN MissingSamples(joined.index, distances.some.index)
                      ELSE <<>>
       IN
       /\ genotypes' = stamped
       /\ IF missing # <<>>
          THEN /\ raised' = DatasetError(missing[1])
               /\ self' = [_data |-> joined]
               /\ args' = args
          ELSE LET table == IF distances # None
                            THEN Reindex(joined, distances.some.index)
                            ELSE joined
                   csr == IF distances # None THEN Some(distances.some.matrix) ELSE None
                   mcols == (IF TruthySet(args.metadata_columns)
                             THEN args.metadata_columns.some
                             ELSE IF metadata # None THEN metadata.some.columns ELSE {})
                            \cup {"Dataset"}
                   assigned == [_data |-> table, distances |-> csr, metadata_columns |-> mcols]
               IN
               /\ args' = IF TruthySet(args.metadata_columns)
                          THEN [args EXCEPT !.metadata_columns = Some(mcols)]
                          ELSE args
               /\ IF "qc_metrics" \in DOMAIN assigned
                  THEN /\ raised' = None
                       /\ self' = Merge(assigned,
                            [genotype_columns |->
                               ((IF TruthySet(args.genotype_columns)
                                 THEN args.genotype_columns.some
                                 ELSE stamped.columns)
                                \ assigned.qc_metrics) \ mcols])
                  ELSE /\ raised' = AttributeError("qc_metrics")
                       /\ self' = assigned
    /\ call' = None
    /\ warnings' = <<>>
    /\ UNCHANGED <<metadata, distances, wilsonVars, prevVars, restVars>>

\* ---- Dataset.calculate_clusters ------------------------------------------
ClusterLabel(n) == "cluster_" \o ToString(n)

\* self.distances[group_indices, :][:, group_indices]
Subgraph(M, gi) ==
    [a \in 1..Len(gi) |-> [b \in 1..Len(gi) |-> M[gi[a]][gi[b]]]]

\* a threshold filter that also drops the entries equal to the threshold
\* (a variant used to test C1)
ThresholdStrict(G, distance) ==
    [a \in DOMAIN G |-> [b \in DOMAIN G[a] |-> IF G[a][b] >= distance THEN 0 ELSE G[a][b]]]

\* subgraph.data[subgraph.data > distance] = 0; subgraph.eliminate_zeros()
Threshold(G, distance) ==
    [a \in DOMAIN G |-> [b \in DOMAIN G[a] |-> IF G[a][b] > distance THEN 0 ELSE G[a][b]]]

\* directed=False: an edge joins a and b when either entry is stored
Adjacent(G, a, b) == G[a][b] # 0 \/ G[b][a] # 0

RECURSIVE Grow(_, _)
Grow(G, S) ==
    LET T == S \cup {b \in DOMAIN G : \E a \in S : Adjacent(G, a, b)}
    IN IF T = S THEN S ELSE Grow(G, T)

Component(G, a) == Grow(G, {a})

\* scipy connected_components(directed=False, return_labels=True): the
\* components are numbered from 0 in the order of their lowest node
connected_components(G) ==
    LET root == [b \in DOMAIN G |-> MinOf(Component(G, b))]
    IN [a \in DOMAIN G |-> Cardinality({r \in Range(root) : r < root[a]})]

\* a counter advanced by the maximum local label only (a variant used to
\* test C3)
NextCounterMaxOnly(counter, local) == counter + MaxOf(Range(local))

\* global_cluster_counter += local_labels.max() + 1
NextCounter(counter, local) == counter + MaxOf(Range(local)) + 1

\* the groups iterated by the loop, each as the ascending positions of its rows
ClusterGroups(t, group_by) ==
    IF Truthy(group_by)
    THEN LET keys == SortedKeys(GroupKeys(t.rows, group_by.some))
         IN [k \in 1..Len(keys) |-> SortedSeq(GroupMembers(t.rows, group_by.some, keys[k]))]
    ELSE IF Len(t.rows) = 0 THEN <<>> ELSE <<[i \in 1..Len(t.rows) |-> i]>>

\* the loop over the groups, from group k on
RECURSIVE LabelGroups(_, _, _, _, _, _)
LabelGroups(groups, M, distance, k, counter, labels) ==
    IF k > Len(groups)
    THEN labels
    ELSE LET gi == groups[k]
             local == connected_components(Threshold(Subgraph(M, gi), distance))
             new == [i \in DOMAIN labels |->
                       IF i \in Range(gi)
                       THEN ClusterLabel(local[PosOf(gi, i)] + counter)
                       ELSE labels[i]]
         IN LabelGroups(groups, M, distance, k + 1, NextCounter(counter, local), new)

ConnectedComponentLabels(t, M, group_by, distance) ==
    LabelGroups(ClusterGroups(t, group_by), M, distance, 1, 1,
                [i \in 1..Len(t.rows) |-> NaN])

\* 'cluster_' + (groupby(group_by).ngroup() + 1).astype(str): ngroup() is a
\* float series, NaN for the rows of a dropped key, when a key is dropped
VariableLabels(t, group_by) ==
    IF Truthy(group_by)
    THEN LET cols == group_by.some
             keys == SortedKeys(GroupKeys(t.rows, cols))
             dropped == \E i \in 1..Len(t.rows) : KeyHasNaN(KeyOf(t.rows[i], cols))
         IN [i \in 1..Len(t.rows) |->
               IF KeyHasNaN(KeyOf(t.rows[i], cols))
               THEN "cluster_nan"
               ELSE LET g == PosOf(keys, KeyOf(t.rows[i], cols))
                    IN IF dropped THEN ClusterLabel(g) \o ".0" ELSE ClusterLabel(g)]
    ELSE [i \in 1..Len(t.rows) |-> ClusterLabel(i)]

MethodChoices == {"connected_components", "variables", "kmeans"}
GroupByChoices == {None, Some(<<"ST">>)}
CallChoices ==
    {[method |-> "connected_components", group_by |-> g, distance |-> d] :
        g \in GroupByChoices, d \in 0..MaxThreshold}
    \cup {[method |-> "variables", group_by |-> g, distance |-> DefaultDistance] :
        g \in GroupByChoices}
    \cup {[method |-> "kmeans", group_by |-> None, distance |-> DefaultDistance]}

\* __init__ binds self._data to the caller's genotype table itself unless the
\* join or the reindex replaced it by a new table
SharesGenotypes == metadata = None /\ distances = None

\* an instance that lost its Cluster column in a call that raised (a variant
\* used to test C24)
FailedCallDropsColumn(s) ==
    [s EXCEPT !._data =
        [index |-> s._data.index,
         columns |-> s._data.columns \ {"Cluster"},
         rows |-> [i \in 1..Len(s._data.rows) |->
                     [c \in s._data.columns \ {"Cluster"} |-> s._data.rows[i][c]]]]]

\* the instance after a call that raised: both raise statements come before
\* any assignment to self._data
FailedCall(s) == s

\* Dataset.calculate_clusters, called once on an instance: a call needs a
\* receiver, which a constructor call that raised does not give
CalculateClusters ==
    /\ pc = "dataset"
    /\ raised = None
    /\ {"_data", "distances"} \subseteq DOMAIN self
    /\ pc' = "clustered"
    /\ \E c \in CallChoices :
         LET t == self._data
             clustered ==
               IF c.method = "variables"
               THEN Some(SetColumn(t, "Cluster", VariableLabels(t, c.group_by)))
               ELSE IF c.method = "connected_components" /\ self.distances # None
               THEN Some(SetColumn(t, "Cluster",
                        ConnectedComponentLabels(t, self.distances.some, c.group_by, c.distance)))
               ELSE None
         IN
         /\ call' = c
         /\ warnings' = IF "Cluster" \in t.columns THEN <<"DatasetWarning">> ELSE <<>>
         /\ raised' =
              IF clustered # None THEN None
              ELSE IF c.method = "connected_components"
              THEN [type |-> "DatasetError",
                    msg |-> "Cannot calculate connected components: no distance matrix found in Dataset."]
              ELSE [type |-> "ValueError", msg |-> "Unknown method", method |-> c.method]
         /\ self' = IF clustered # None
                    THEN [self EXCEPT !._data = clustered.some]
                    ELSE FailedCall(self)
         /\ genotypes' = IF clustered # None /\ SharesGenotypes THEN clustered.some ELSE genotypes
    /\ UNCHANGED <<metadata, distances, args, wilsonVars, prevVars, restVars>>

\* ---- the arguments of Dataset(...) ---------------------------------------
SampleIndex(n) == [i \in 1..n |-> i]

\* the sequences of distinct sample names
SampleLists == {ix \in SeqsUpTo(Samples, MaxSamples) : Cardinality(Range(ix)) = Len(ix)}

DefaultArgs ==
    [name |-> "unknown", genotype_columns |-> None, qc_metrics |-> None,
     metadata_columns |-> None]

UnitMatrix(m) == [a \in 1..m |-> [b \in 1..m |-> IF a = b THEN 0 ELSE 1]]

DatasetArgs ==
    /\ pc = "dataset_args"
    /\ \E n \in 1..MaxSamples :
         genotypes = [index |-> SampleIndex(n), columns |-> {"ST", "N50"},
                      rows |-> [i \in 1..n |-> [c \in {"ST", "N50"} |-> "a"]]]
    /\ metadata \in {None} \cup
         {Some([index |-> SortedSeq(S), columns |-> {"Country"},
                rows |-> [i \in 1..Cardinality(S) |-> [c \in {"Country"} |-> "b"]]]) :
            S \in (SUBSET Samples) \ {{}}}
    /\ distances \in {None} \cup
         {Some([matrix |-> UnitMatrix(Len(ix)), index |-> ix]) : ix \in SampleLists}
    /\ args \in [name : {"unknown", "ds1"},
                 genotype_columns : {None, Some({"ST"})},
                 qc_metrics : {None, Some({"N50"})},
                 metadata_columns : {None, Some({}), Some({"Country"})}]
    /\ self = None /\ call = None /\ warnings = <<>> /\ raised = None
    /\ WilsonIdle /\ PrevIdle /\ RestIdle

SpecDataset == DatasetArgs /\ [][DatasetInit]_vars

\* the pairs of a pairwise distance file over n samples
Pairs(n) == {p \in (1..n) \X (1..n) : p[1] < p[2]}

\* a square distance file gives both triangles, a long one the pairs as listed
SquareMatrix(n, u) ==
    [a \in 1..n |-> [b \in 1..n |->
        IF a = b THEN 0 ELSE u[<<Min(a, b), Max(a, b)>>]]]
LongMatrix(n, u) ==
    [a \in 1..n |-> [b \in 1..n |-> IF a < b THEN u[<<a, b>>] ELSE 0]]

\* the ST column: a missing ST, if any, is that of the last sample
STColumns(n) == {st \in [1..n -> Cells] : \A i \in 1..(n - 1) : st[i] # NaN}

\* The receiver of calculate_clusters: an instance holding the attributes
\* that lines 25-42 of __init__ assign for the genotype table g stamped with
\* the default name and the distance pair d over the same samples.
\* Dataset(...) itself returns no instance (line 44 raises), so the method is
\* checked on receivers given to it, not on the result of a constructor call.
Receiver(g, d) ==
    [_data |-> g,
     distances |-> IF d # None THEN Some(d.some.matrix) ELSE None,
     metadata_columns |-> {"Dataset"}]

\* a genotype table after line 26, with the ST column st; a Cluster column
\* of its own holds "old"
Stamped(index, cols, st) ==
    [index |-> index, columns |-> cols \cup {"Dataset"},
     rows |-> [i \in 1..Len(index) |->
                 [c \in cols \cup {"Dataset"} |->
                    IF c = "Dataset" THEN DefaultArgs.name
                    ELSE IF c = "ST" THEN st[i] ELSE "old"]]]

ClusterArgs ==
    /\ pc = "dataset"
    /\ \E n \in 1..MaxSamples :
         /\ \E st \in STColumns(n) :
              genotypes = Stamped(SampleIndex(n), {"ST"}, st)
         /\ distances \in {None} \cup
              {Some([matrix |-> SquareMatrix(n, u), index |-> SampleIndex(n)]) :
                  u \in [Pairs(n) -> DistanceValues]} \cup
              {Some([matrix |-> LongMatrix(n, u), index |-> SampleIndex(n)]) :
                  u \in [Pairs(n) -> DistanceValues]}
    /\ metadata = None
    /\ args = DefaultArgs
    /\ self = Receiver(genotypes, distances)
    /\ call = None /\ warnings = <<>> /\ raised = None
    /\ WilsonIdle /\ PrevIdle /\ RestIdle

ClusterNext == CalculateClusters

SpecClusters == ClusterArgs /\ [][ClusterNext]_vars

\* tables that may come with a Cluster column of their own, with or without
\* a distance pair
ReclusterArgs ==
    /\ pc = "dataset"
    /\ \E n \in 1..MaxSamples, cols \in {{"ST"}, {"ST", "Cluster"}} :
         /\ \E st \in STColumns(n) :
              genotypes = Stamped(SampleIndex(n), cols, st)
         /\ distances \in {None, Some([matrix |-> UnitMatrix(n), index |-> SampleIndex(n)])}
    /\ metadata = None
    /\ args = DefaultArgs
    /\ self = Receiver(genotypes, distances)
    /\ call = None /\ warnings = <<>> /\ raised = None
    /\ WilsonIdle /\ PrevIdle /\ RestIdle

SpecRecluster == ReclusterArgs /\ [][ClusterNext]_vars

(***************************************************************************)
(* Properties of Dataset.calculate_clusters (SpecClusters).                *)
(***************************************************************************)
Label(i) == self._data.rows[i]["Cluster"]
ST(i) == self._data.rows[i]["ST"]
Matrix == self.distances.some
NSamples == Len(self._data.rows)

ComponentsDone ==
    pc = "clustered" /\ call.method = "connected_components" /\ raised = None

\* i and j have a positive recorded distance, in either direction, of at most T
RecordedWithin(M, T, i, j) == \E d \in {M[i][j], M[j][i]} : d > 0 /\ d <= T

\* the samples reached from S by at most k such steps
RECURSIVE ReachWithin(_, _, _, _)
ReachWithin(M, T, S, k) ==
    IF k = 0 THEN S
    ELSE ReachWithin(M, T, S \cup {j \in DOMAIN M : \E i \in S : RecordedWithin(M, T, i, j)},
                     k - 1)

PathWithin(M, T, i, j) == j \in ReachWithin(M, T, {i}, Len(M) - 1)

\* C1: after calculate_clusters('connected_components') without group_by, two
\* samples have the same Cluster label exactly when a path of positive
\* recorded distances, each at most the threshold, joins them; a distance
\* equal to the threshold connects.
C1_SameClusterIffPath ==
    (ComponentsDone /\ call.group_by = None) =>
      \A i, j \in 1..NSamples :
        (Label(i) = Label(j)) <=> PathWithin(Matrix, call.distance, i, j)

\* d(1,2) = d(2,3) = threshold, d(1,3) above it: one cluster of three
C1_Witness ==
    /\ ComponentsDone /\ call.group_by = None
    /\ NSamples = 3
    /\ call.distance = 1
    /\ Matrix = SquareMatrix(3, [p \in Pairs(3) |-> IF p = <<1, 3>> THEN 2 ELSE 1])
    /\ \A i \in 1..3 : Label(i) = "cluster_1"

Symmetric(M) == \A a, b \in DOMAIN M : M[a][b] = M[b][a]

TableSamples == Range(genotypes.index)

LacksSample ==
    distances # None /\ \E s \in TableSamples : s \notin Range(distances.some.index)

\* C4: when the sample list of the distance pair lacks a sample of the merged
\* table, __init__ raises DatasetError naming a lacking sample and leaves no
\* constructed Dataset; otherwise what it raises, if anything, is not
\* DatasetError.
C4_MissingSampleError ==
    pc = "dataset" =>
      IF LacksSample
      THEN /\ raised # None
           /\ raised.type = "DatasetError"
           /\ raised.sample \in TableSamples \ Range(distances.some.index)
           /\ "distances" \notin DOMAIN self
      ELSE raised # None => raised.type # "DatasetError"

\* a table of several samples with metadata, one sample in the list, one not
C4_Witness ==
    /\ pc = "dataset"
    /\ metadata # None
    /\ LacksSample
    /\ \E s \in TableSamples : s \in Range(distances.some.index)
    /\ raised # None
    /\ raised.type = "DatasetError"

MetadataCoversSubset ==
    metadata # None /\ Range(metadata.some.index) \subseteq TableSamples

\* the rows part of C5 on the table __init__ has bound to self._data
LeftJoinKeepsRows ==
    (pc = "dataset" /\ MetadataCoversSubset /\ distances = None) =>
      /\ Len(self._data.rows) = Len(genotypes.index)
      /\ \A i \in 1..Len(self._data.rows) :
           self._data.index[i] \notin Range(metadata.some.index)
             => \A c \in metadata.some.columns : self._data.rows[i][c] = NaN

\* C5: constructing a Dataset from n genotype samples and metadata covering a
\* subset of them completes with a merged table of n rows, NaN in the
\* metadata columns of the samples without metadata, and disjoint
\* genotype_columns and metadata_columns.
C5_MergedTable ==
    (pc = "dataset" /\ MetadataCoversSubset /\ distances = None) =>
      /\ raised = None
      /\ LeftJoinKeepsRows
      /\ {"genotype_columns", "metadata_columns"} \subseteq DOMAIN self
      /\ self.genotype_columns \cap self.metadata_columns = {}

\* what __init__ raises when the distance check passes
ConstructionRaisesAttributeError ==
    (pc = "dataset" /\ ~LacksSample) =>
      /\ raised # None
      /\ raised.type = "AttributeError"
      /\ "genotype_columns" \notin DOMAIN self

\* C6: construction completes for every combination of the column-set
\* overrides, with metadata_columns the declared or derived set plus
\* 'Dataset' and genotype_columns the declared or derived set minus
\* qc_metrics minus metadata_columns.
C6_ConstructionCompletes ==
    (pc = "dataset" /\ ~LacksSample) =>
      /\ raised = None
      /\ {"genotype_columns", "metadata_columns"} \subseteq DOMAIN self
      /\ self.metadata_columns =
           (IF TruthySet(args.metadata_columns) THEN args.metadata_columns.some
            ELSE IF metadata # None THEN metadata.some.columns ELSE {}) \cup {"Dataset"}
      /\ self.genotype_columns =
           ((IF TruthySet(args.genotype_columns) THEN args.genotype_columns.some
             ELSE genotypes.columns)
            \ (IF args.qc_metrics # None THEN args.qc_metrics.some ELSE {}))
           \ self.metadata_columns

(***************************************************************************)
(* Properties of PrevalenceCalculator.__init__ (SpecPrevalence).           *)
(***************************************************************************)
\* C11: a supplied denominator outside stratify_by raises ValueError and no
\* calculator is built; otherwise the calculator stores the supplied
\* denominator, or the first stratify column when none is supplied and there
\* are several, or none when there is one; the stored denominator is absent
\* or a member of stratify_by.
C11_DenominatorResolved ==
    pc \in {"constructed", "calculated"} =>
      IF cargs.denominator # None /\ cargs.denominator.some \notin Range(cargs.stratify_by)
      THEN /\ raised # None
           /\ raised.type = "ValueError"
           /\ calculator = None
      ELSE /\ raised = None
           /\ calculator # None
           /\ calculator.denominator =
                (IF cargs.denominator # None THEN cargs.denominator
                 ELSE IF Len(cargs.stratify_by) > 1 THEN Some(cargs.stratify_by[1])
                 ELSE None)
           /\ \/ calculator.denominator = None
              \/ calculator.denominator.some \in Range(cargs.stratify_by)

\* the same statement for the denominators that are column names: a
\* non-empty denominator outside stratify_by raises ValueError; an omitted
\* or empty one becomes the first stratify column when there are several
\* and is stored as it was given (None or '') when there is one
DenominatorResolvedNonEmpty ==
    pc \in {"constructed", "calculated"} =>
      IF TruthyStr(cargs.denominator) /\ cargs.denominator.some \notin Range(cargs.stratify_by)
      THEN /\ raised # None
           /\ raised.type = "ValueError"
           /\ calculator = None
      ELSE /\ raised = None
           /\ calculator # None
           /\ calculator.denominator =
                (IF TruthyStr(cargs.denominator) THEN cargs.denominator
                 ELSE IF Len(cargs.stratify_by) > 1 THEN Some(cargs.stratify_by[1])
                 ELSE cargs.denominator)
           /\ \/ ~TruthyStr(calculator.denominator)
              \/ calculator.denominator.some \in Range(cargs.stratify_by)

\* the empty string is stored as the denominator of a one-column calculator
EmptyDenominatorStored ==
    /\ pc = "constructed"
    /\ Len(cargs.stratify_by) = 1
    /\ calculator # None
    /\ calculator.denominator = Some("")

(***************************************************************************)
(* The readers of io.py (GenotypeFile, MetaFile, DistFile).                *)
(*                                                                         *)
(* reader is a record: call is the call that builds the reader, built the  *)
(* reader it returned (its attributes) or None, loaded what load()         *)
(* returned or None.  A square file is the table read from it (the cells   *)
(* df.values and the column names); a long file is its lines, each a pair  *)
(* of sample names followed by numeric fields.                             *)
(***************************************************************************)
MaxDim == 2       \* samples of a square distance file
MaxLines == 2     \* lines of a long distance file

GenotypeFlavours == {"pw-kleborate", "kleborate", "kaptive"}     \* _GENOTYPE_FLAVOURS
MetaFlavours == {"pw-metadata"}                                    \* _META_FLAVOURS
DistFlavours == {"pw-dist", "mash", "ska1", "ska2"}                \* _DIST_FLAVOURS

Returned(v) == [raised |-> None, value |-> Some(v)]
Raised(e) == [raised |-> e, value |-> None]

UnknownFlavour(flavour) ==
    [type |-> "ValueError", msg |-> "Unknown flavour: {flavour}", flavour |-> flavour]

\* _BaseTextFile.__init__
BaseTextFile(cls, sep, index_col) == [cls |-> cls, sep |-> sep, index_col |-> index_col]

\* a dispatch that falls back to the default reader (a variant used to
\* test C14)
GenotypeFromFlavourDefault(flavour) ==
    IF flavour = "pw-kleborate"
    THEN Returned(BaseTextFile("GenotypeFile", ",", 1))
    ELSE Returned(BaseTextFile("GenotypeFile", "\t", 0))

\* GenotypeFile.from_flavour
GenotypeFromFlavour(flavour) ==
    IF flavour \in {"kleborate", "kaptive"}
    THEN Returned(BaseTextFile("GenotypeFile", "\t", 0))
    ELSE IF flavour = "pw-kleborate"
    THEN Returned(BaseTextFile("GenotypeFile", ",", 1))
    ELSE Raised(UnknownFlavour(flavour))

\* MetaFile.from_flavour
MetaFromFlavour(flavour) ==
    IF flavour = "pw-metadata"
    THEN Returned(BaseTextFile("MetaFile", ",", 0))
    ELSE Raised(UnknownFlavour(flavour))

\* DistFile.__init__
DistFile(shape, sep, usecols, symmetrical) ==
    [cls |-> "DistFile", shape |-> shape, sep |-> sep, usecols |-> usecols,
     symmetrical |-> symmetrical]

\* DistFile.from_flavour: the second test of 'ska1' is never reached with
\* 'ska1' and no branch tests 'ska2'
DistFromFlavour(flavour) ==
    IF flavour = "mash"
    THEN Returned(DistFile("long", "\t", <<0, 1, 3>>, TRUE))
    ELSE IF flavour = "ska1"
    THEN Returned(DistFile("long", "\t", <<0, 1, 6>>, TRUE))
    ELSE IF flavour = "ska1"
    THEN Returned(DistFile("long", "\t", <<0, 1, 2>>, TRUE))
    ELSE IF flavour = "pw-dist"
    THEN Returned(DistFile("square", ",", <<0, 1, 2>>, TRUE))
    ELSE Raised(UnknownFlavour(flavour))

FromFlavourCalls ==
    {[fn |-> "from_flavour", cls |-> "GenotypeFile", flavour |-> f] :
        f \in GenotypeFlavours \cup {"pw-metadata", "vcf"}}
    \cup {[fn |-> "from_flavour", cls |-> "MetaFile", flavour |-> f] :
        f \in MetaFlavours \cup {"kleborate", "vcf"}}
    \cup {[fn |-> "from_flavour", cls |-> "DistFile", flavour |-> f] :
        f \in DistFlavours \cup {"vcf"}}

\* DistFile(filepath, shape=..., symmetrical=...) with the other defaults
InitCalls ==
    {[fn |-> "__init__", cls |-> "DistFile", shape |-> sh, symmetrical |-> sy] :
        sh \in {"square", "long", "guess"}, sy \in BOOLEAN}

ReaderArgs ==
    /\ pc = "reader_args"
    /\ reader \in {[call |-> c, built |-> None, loaded |-> None] :
                      c \in FromFlavourCalls \cup InitCalls}
    /\ raised = None /\ cli = None /\ app = None /\ objects = None /\ LateIdle
    /\ WilsonIdle /\ PrevIdle /\ DatasetIdle

\* GenotypeFile.from_flavour, MetaFile.from_flavour, DistFile.from_flavour
FromFlavour ==
    /\ pc = "reader_args"
    /\ reader.call.fn = "from_flavour"
    /\ LET out == IF reader.call.cls = "GenotypeFile"
                  THEN GenotypeFromFlavour(reader.call.flavour)
                  ELSE IF reader.call.cls = "MetaFile"
                  THEN MetaFromFlavour(reader.call.flavour)
                  ELSE DistFromFlavour(reader.call.flavour)
       IN /\ reader' = [reader EXCEPT !.built = out.value]
          /\ raised' = out.raised
    /\ pc' = "reader"
    /\ UNCHANGED <<wilsonVars, prevVars, datasetVars, cli, app, objects, lateVars>>

\* DistFile.__init__ called directly
DistFileInit ==
    /\ pc = "reader_args"
    /\ reader.call.fn = "__init__"
    /\ reader' = [reader EXCEPT !.built =
                     Some(DistFile(reader.call.shape, "\t", <<0, 1, 2>>,
                                   reader.call.symmetrical))]
    /\ raised' = None
    /\ pc' = "reader"
    /\ UNCHANGED <<wilsonVars, prevVars, datasetVars, cli, app, objects, lateVars>>

\* ---- DistFile.load -------------------------------------------------------
\* the tables read from square files: any cells, symmetric or not
SquareFiles ==
    UNION {{[values |-> m, columns |-> SampleIndex(n)] :
               m \in [1..n -> [1..n -> DistanceValues]]} : n \in 1..MaxDim}

\* the numeric fields of a line of a long file, by column number
FieldChoices == {[c \in {2, 3, 6} |-> IF c = k THEN 1 ELSE 0] : k \in {2, 3, 6}}
LongLines == [a : 1..MaxDim, b : 1..MaxDim, fields : FieldChoices]
LongFiles == UNION {[1..m -> LongLines] : m \in 1..MaxLines}

Transpose(M) == [a \in DOMAIN M |-> [b \in DOMAIN M |-> M[b][a]]]

\* matrix.maximum(matrix.T)
MaximumWithTranspose(M) ==
    [a \in DOMAIN M |-> [b \in DOMAIN M |-> Max(M[a][b], Transpose(M)[a][b])]]

\* pd.unique: the values of a sequence in order of first appearance
RECURSIVE Unique(_)
Unique(seq) ==
    IF seq = <<>> THEN <<>>
    ELSE LET front == Unique(SubSeq(seq, 1, Len(seq) - 1))
             last == seq[Len(seq)]
         IN IF last \in Range(front) THEN front ELSE Append(front, last)

\* the sample names of a long file: those of the first column, then those
\* of the second
LongIndex(lines) ==
    Unique([i \in 1..Len(lines) |-> lines[i].a] \o [i \in 1..Len(lines) |-> lines[i].b])

RECURSIVE SumOver(_, _)
SumOver(S, f) ==
    IF S = {} THEN 0
    ELSE LET x == CHOOSE y \in S : TRUE IN f[x] + SumOver(S \ {x}, f)

\* coo_matrix((data, (rows, columns))): entries given twice add up
LongLoad(lines, usecols) ==
    LET index == LongIndex(lines)
        dist == [i \in 1..Len(lines) |-> lines[i].fields[usecols[3]]]
    IN [matrix |->
          [r \in 1..Len(index) |-> [c \in 1..Len(index) |->
              SumOver({i \in 1..Len(lines) :
                          lines[i].a = index[r] /\ lines[i].b = index[c]}, dist)]],
        index |-> index]

\* the square branch of load(): symmetrised only when the reader was built
\* with symmetrical=False
SquareLoad(file, symmetrical) ==
    [matrix |-> IF ~symmetrical THEN MaximumWithTranspose(file.values) ELSE file.values,
     index |-> file.columns]

\* DistFile.load
Load ==
    /\ pc = "reader"
    /\ reader.built # None
    /\ reader.built.some.cls = "DistFile"
    /\ pc' = "loaded"
    /\ LET r == reader.built.some IN
       \/ /\ r.shape = "square"
          /\ \E f \in SquareFiles :
               reader' = [reader EXCEPT !.loaded =
                            Some([file |-> f, out |-> SquareLoad(f, r.symmetrical)])]
          /\ raised' = None
       \/ /\ r.shape = "long"
          /\ \E f \in LongFiles :
               reader' = [reader EXCEPT !.loaded =
                            Some([file |-> f, out |-> LongLoad(f, r.usecols)])]
          /\ raised' = None
       \/ /\ r.shape \notin {"square", "long"}
          /\ raised' = [type |-> "ValueError", msg |-> "Unknown shape: {self.shape}",
                        shape |-> r.shape]
          /\ UNCHANGED reader
    /\ UNCHANGED <<wilsonVars, prevVars, datasetVars, cli, app, objects, lateVars>>

ReaderNext == FromFlavour \/ DistFileInit \/ Load

SpecReaders == ReaderArgs /\ [][ReaderNext]_vars

(***************************************************************************)
(* Properties of the readers (SpecReaders).                                *)
(***************************************************************************)
FromFlavourDone(cls) ==
    /\ pc \in {"reader", "loaded"}
    /\ reader.call.fn = "from_flavour"
    /\ reader.call.cls = cls

\* the flavour table of the distance reader
DistFlavourTable(flavour) ==
    IF flavour = "pw-dist" THEN [shape |-> "square", sep |-> ",", usecols |-> <<0, 1, 2>>]
    ELSE IF flavour = "mash" THEN [shape |-> "long", sep |-> "\t", usecols |-> <<0, 1, 3>>]
    ELSE IF flavour = "ska1" THEN [shape |-> "long", sep |-> "\t", usecols |-> <<0, 1, 6>>]
    ELSE [shape |-> "long", sep |-> "\t", usecols |-> <<0, 1, 2>>]

\* C12: DistFile.from_flavour returns a reader for each of the four distance
\* flavours, configured as the flavour table says (usecols matter for the
\* long shape only).
C12_DistFlavoursAccepted ==
    (FromFlavourDone("DistFile") /\ reader.call.flavour \in DistFlavours) =>
      /\ reader.built # None
      /\ LET r == reader.built.some
             t == DistFlavourTable(reader.call.flavour)
         IN /\ r.shape = t.shape
            /\ r.sep = t.sep
            /\ r.shape = "long" => r.usecols = t.usecols

\* C13: what load() returns for a square file is a symmetric matrix, the
\* element-wise maximum of the parsed matrix and its transpose.
C13_SquareLoadSymmetric ==
    (pc = "loaded" /\ reader.loaded # None /\ reader.built.some.shape = "square") =>
      /\ Symmetric(reader.loaded.some.out.matrix)
      /\ reader.loaded.some.out.matrix = MaximumWithTranspose(reader.loaded.some.file.values)

\* the part of C13 the code keeps: a reader built with symmetrical=False
\* returns the maximum with the transpose
SquareLoadSymmetricWhenFlagged ==
    (pc = "loaded" /\ reader.loaded # None /\ reader.built.some.shape = "square"
       /\ ~reader.built.some.symmetrical) =>
      /\ Symmetric(reader.loaded.some.out.matrix)
      /\ reader.loaded.some.out.matrix = MaximumWithTranspose(reader.loaded.some.file.values)

\* C14: GenotypeFile.from_flavour gives tab and index column 0 for 'kleborate'
\* and 'kaptive', comma and index column 1 for 'pw-kleborate';
\* MetaFile.from_flavour gives comma and index column 0 for 'pw-metadata';
\* any other flavour raises ValueError naming it and no reader is returned.
C14_TabularDispatch ==
    /\ FromFlavourDone("GenotypeFile") =>
         IF reader.call.flavour \in {"kleborate", "kaptive"}
         THEN raised = None /\ reader.built = Some(BaseTextFile("GenotypeFile", "\t", 0))
         ELSE IF reader.call.flavour = "pw-kleborate"
         THEN raised = None /\ reader.built = Some(BaseTextFile("GenotypeFile", ",", 1))
         ELSE /\ raised # None /\ raised.type = "ValueError"
              /\ raised.flavour = reader.call.flavour
              /\ reader.built = None
    /\ FromFlavourDone("MetaFile") =>
         IF reader.call.flavour = "pw-metadata"
         THEN raised = None /\ reader.built = Some(BaseTextFile("MetaFile", ",", 0))
         ELSE /\ raised # None /\ raised.type = "ValueError"
              /\ raised.flavour = reader.call.flavour
              /\ reader.built = None

\* an unknown genotype flavour: ValueError naming it, no reader
C14_Witness ==
    /\ FromFlavourDone("GenotypeFile")
    /\ reader.call.flavour = "vcf"
    /\ raised # None /\ raised.type = "ValueError" /\ raised.flavour = "vcf"
    /\ reader.built = None

(***************************************************************************)
(* Importing the package (pathogenx/__init__.py, app/__init__.py,          *)
(* app/ui.py, io/__init__.py).                                             *)
(*                                                                         *)
(* importable is the set of third-party modules of the app that the        *)
(* environment can import.  `import pathogenx` builds RESOURCES, which     *)
(* imports pathogenx.app to see whether it can be imported.                *)
(***************************************************************************)
ThirdParty == {"shiny", "faicons"}

ImportError(name) == [type |-> "ImportError", msg |-> "cannot import", name |-> name]
NameError(name) == [type |-> "NameError", msg |-> "name is not defined", name |-> name]

\* import_module('pathogenx.app'): app/__init__.py imports shiny, then app/ui.py,
\* which imports faicons and then names data_selector, a name it never defines
ImportApp(importable) ==
    IF "shiny" \notin importable THEN Raised(ImportError("shiny"))
    ELSE IF "faicons" \notin importable THEN Raised(ImportError("faicons"))
    ELSE Raised(NameError("data_selector"))

\* Resources._check_module: only ImportError is caught
CheckModule(module_name, importable) ==
    LET out == IF module_name = "pathogenx.app" THEN ImportApp(importable)
               ELSE IF module_name \in importable THEN Returned(module_name)
               ELSE Raised(ImportError(module_name))
    IN IF out.raised = None THEN Returned(TRUE)
       ELSE IF out.raised.type = "ImportError" THEN Returned(FALSE)
       ELSE Raised(out.raised)

\* Resources.__init__: the optional packages that can be imported, or the
\* exception of the first check that raised
Resources(optional_packages, importable) ==
    LET checks == [i \in 1..Len(optional_packages) |->
                      CheckModule(optional_packages[i], importable)]
        failed == {i \in 1..Len(optional_packages) : checks[i].raised # None}
    IN IF failed # {}
       THEN Raised(checks[MinOf(failed)].raised)
       ELSE Returned([optional_packages |->
                {optional_packages[i] : i \in {j \in 1..Len(optional_packages) :
                                                 checks[j].value = Some(TRUE)}}])

\* RESOURCES = Resources('pathogenx.app'), run by `import pathogenx`
RESOURCES(importable) == Resources(<<"pathogenx.app">>, importable)

\* the names bound by pathogenx/io/__init__.py: the directory io/ is a package
\* and is found before the module io.py, so `pathogenx.io` is this package
IoPackage ==
    {"Path", "LiteralString", "Union", "Callable", "pd", "coo_matrix",
     "InputFileError", "InputFile"}

\* from <module> import <names>
ImportFrom(module, names) ==
    LET missing == SelectSeq(names, LAMBDA n : n \notin module)
    IN IF missing # <<>> THEN Raised(ImportError(missing[1])) ELSE Returned(names)

(***************************************************************************)
(* The command line (cli.py).                                              *)
(*                                                                         *)
(* cli is a record: importable is the environment, argv holds the options  *)
(* of the 'prevalence' command, file the table in the genotype file,       *)
(* stdout what the run wrote (None when nothing was written) and steps the *)
(* calls main() made.  A run imports pathogenx.cli and then calls main().  *)
(***************************************************************************)
\* the names cli.py imports from pathogenx.io when it is imported
CliImports == <<"_GENOTYPE_FLAVOURS", "_META_FLAVOURS", "_DIST_FLAVOURS">>

\* the attributes of the class Dataset
DatasetMembers ==
    {"__init__", "__repr__", "__len__", "__contains__", "__getitem__", "__iter__",
     "data", "samples", "calculate_clusters"}

\* argparse rejects an option value outside its choices
SystemExit(code) == [type |-> "SystemExit", code |-> code]

TypeAttributeError(cls, attr) ==
    [type |-> "AttributeError", msg |-> "type object has no attribute",
     cls |-> cls, attr |-> attr]

\* the file paths of a command line: genotypes, then the optional metadata
\* and distances
CliPaths ==
    {<<"genotypes.csv">>,
     <<"genotypes.csv", "metadata.csv">>,
     <<"genotypes.csv", "distances.csv">>,
     <<"genotypes.csv", "metadata.csv", "distances.csv">>}

\* argparse fills the positionals in order: the second path is metadata,
\* whatever the file holds, and distances is set only by a third path
Positional(paths, i) == IF Len(paths) >= i THEN Some(paths[i]) ELSE None

\* the parsed command lines; the flavour options have defaults and are
\* checked whether or not the file is given
CliArgvs ==
    {[genotype_flavour |-> o.genotype_flavour,
      metadata |-> Positional(paths, 2),
      metadata_flavour |-> o.metadata_flavour,
      distances |-> Positional(paths, 3),
      distance_flavour |-> o.distance_flavour,
      stratify_by |-> o.stratify_by,
      snp_distance |-> DefaultDistance] :
        paths \in CliPaths,
        o \in [genotype_flavour : GenotypeFlavours \cup {"vcf"},
               metadata_flavour : MetaFlavours \cup {"vcf"},
               distance_flavour : DistFlavours \cup {"vcf"},
               stratify_by : {None, Some(<<"ST">>)}]}

GenotypeFiles ==
    UNION {{[index |-> SampleIndex(n), columns |-> {"ST"},
             rows |-> [i \in 1..n |-> [c \in {"ST"} |-> st[i]]]] :
               st \in [1..n -> Range(Categories)]} : n \in 1..MaxSamples}

\* the calls main() makes before the Dataset is built, in order
ReaderCalls(argv) ==
    <<"GenotypeFile.from_flavour">>
    \o (IF argv.metadata # None THEN <<"MetaFile.from_flavour">> ELSE <<>>)
    \o (IF argv.distances # None THEN <<"DistFile.from_flavour">> ELSE <<>>)

\* the calls main() makes from the Dataset on, in order
DatasetCalls(argv) ==
    <<"Dataset.from_files">>
    \o (IF argv.distances # None THEN <<"Dataset.calculate_clusters">> ELSE <<>>)
    \o <<"PrevalenceCalculator.calculate", "to_csv">>

\* the calls made when the call name raised
UpTo(calls, name) == SubSeq(calls, 1, PosOf(calls, name))

\* main(), command 'prevalence': the exception it ends with, what it wrote
\* and the calls it made
CliPrevalence(argv, file) ==
    IF \/ argv.genotype_flavour \notin GenotypeFlavours
       \/ argv.metadata_flavour \notin MetaFlavours
       \/ argv.distance_flavour \notin DistFlavours
    THEN [raised |-> SystemExit(2), stdout |-> None, steps |-> <<>>]
    ELSE LET genotype_file == GenotypeFromFlavour(argv.genotype_flavour)
             metadata_file == IF argv.metadata # None
                              THEN MetaFromFlavour(argv.metadata_flavour)
                              ELSE Returned(None)
             distance_file == IF argv.distances # None
                              THEN DistFromFlavour(argv.distance_flavour)
                              ELSE Returned(None)
             readers == ReaderCalls(argv)
         IN IF genotype_file.raised # None
            THEN [raised |-> genotype_file.raised, stdout |-> None,
                  steps |-> UpTo(readers, "GenotypeFile.from_flavour")]
            ELSE IF metadata_file.raised # None
            THEN [raised |-> metadata_file.raised, stdout |-> None,
                  steps |-> UpTo(readers, "MetaFile.from_flavour")]
            ELSE IF distance_file.raised # None
            THEN [raised |-> distance_file.raised, stdout |-> None,
                  steps |-> UpTo(readers, "DistFile.from_flavour")]
            ELSE IF "from_files" \notin DatasetMembers
            THEN [raised |-> TypeAttributeError("Dataset", "from_files"), stdout |-> None,
                  steps |-> readers \o <<"Dataset.from_files">>]
            ELSE [raised |-> None,
                  stdout |-> Some(Calculate([stratify_by |-> argv.stratify_by.some,
                                             adjust_for |-> None, n_distinct |-> None,
                                             denominator |-> None], file.rows)),
                  steps |-> readers \o DatasetCalls(argv)]

CliArgs ==
    /\ pc = "cli_args"
    /\ cli \in [importable : SUBSET ThirdParty, argv : CliArgvs, file : GenotypeFiles,
                 stdout : {None}, steps : {<<>>}]
    /\ raised = None /\ reader = None /\ app = None /\ objects = None /\ LateIdle
    /\ WilsonIdle /\ PrevIdle /\ DatasetIdle

\* the entry point: `import pathogenx.cli` (lines 8 and 10), then main()
CliMain ==
    /\ pc = "cli_args"
    /\ pc' = "cli_done"
    /\ LET package == RESOURCES(cli.importable)
           names == ImportFrom(IoPackage, CliImports)
           out == IF package.raised # None
                  THEN [raised |-> package.raised, stdout |-> None, steps |-> <<>>]
                  ELSE IF names.raised # None
                  THEN [raised |-> names.raised, stdout |-> None, steps |-> <<>>]
                  ELSE CliPrevalence(cli.argv, cli.file)
       IN /\ raised' = out.raised
          /\ cli' = [cli EXCEPT !.stdout = out.stdout, !.steps = out.steps]
    /\ UNCHANGED <<wilsonVars, prevVars, datasetVars, reader, app, objects, lateVars>>

SpecCli == CliArgs /\ [][CliMain]_vars

\* C15: the 'prevalence' command with only a valid genotype file of n samples
\* and --stratify-by on one column of m distinct values completes and writes
\* m data rows whose count.raw sum to n and whose prop.raw, each count.raw
\* over n, sum to 1.
C15_CliPrevalenceOutput ==
    (/\ pc = "cli_done"
     /\ cli.argv.genotype_flavour \in GenotypeFlavours
     /\ cli.argv.metadata = None /\ cli.argv.distances = None
     /\ cli.argv.stratify_by = Some(<<"ST">>)) =>
      /\ raised = None
      /\ cli.stdout # None
      /\ Len(cli.stdout.some) = Cardinality({cli.file.rows[i]["ST"] : i \in 1..Len(cli.file.rows)})
      /\ SumColumn(cli.stdout.some, "count.raw") = Len(cli.file.rows)
      /\ \A i \in 1..Len(cli.stdout.some) :
           cli.stdout.some[i]["denominator.raw"] = Len(cli.file.rows)

\* what main() does on every accepted command line
CliAlwaysRaises == pc = "cli_done" => raised # None /\ cli.stdout = None

(***************************************************************************)
(* The application server (app/server.py, main_server).                    *)
(*                                                                         *)
(* app is a record of one session:                                         *)
(*   uploads, flavours   the file inputs and flavour selects; a file is    *)
(*                       "none", "good", "empty" (no rows) or "bad" (the   *)
(*                       reader's load() raises)                           *)
(*   dirty               the reactive calcs invalidated since their last   *)
(*                       run                                               *)
(*   pending             the effects waiting to run, in order              *)
(*   reactive_dataset    the reactive value holding the Dataset            *)
(*   previous            reactive_dataset when the last input arrived      *)
(*   ran, notifications, constructed                                       *)
(*                       what the effects did since the last input: the    *)
(*                       calcs that ran, the notifications shown, whether  *)
(*                       Dataset(...) was called                           *)
(*   sidebar, upload_panel                                                 *)
(*                       the show argument of the last update_sidebar      *)
(*                       ("sidebar") and update_accordion ("upload_panel"),*)
(*                       None while the page is as app/ui.py builds it     *)
(*   clicked             the last action button input received             *)
(*   session             "open", or "closed" once an effect has raised     *)
(*                                                                         *)
(* No run of the tree as it stands serves a session: importing             *)
(* pathogenx.app raises (ImportApp: app/ui.py names data_selector, which   *)
(* it never defines), and line 5 of server.py imports names that the       *)
(* package io/ does not bind (IoPackage).  MainServer is that run.  The    *)
(* handlers that main_server defines are those of the text of server.py,   *)
(* with the names of line 5 taken to be the classes of io.py; they act on  *)
(* a session that the initial state supplies, as main_server sets it up.  *)
(***************************************************************************)
Kinds == <<"genotype", "metadata", "distance">>

\* the choices of the flavour selects (app/ui.py)
UiFlavours ==
    [genotype |-> {"pw-kleborate", "kleborate"},
     metadata |-> {"pw-metadata"},
     distance |-> {"pw-kleborate", "kleborate"}]

UiFiles ==
    [genotype |-> {"none", "good", "empty", "bad"},
     metadata |-> {"none", "good", "bad"},
     distance |-> {"none", "good", "bad"}]

\* what the good files hold: two samples, metadata for one, all distances
GoodGenotypes ==
    [index |-> <<1, 2>>, columns |-> {"ST"},
     rows |-> <<[c \in {"ST"} |-> "a"], [c \in {"ST"} |-> "b"]>>]
EmptyGenotypes == [index |-> <<>>, columns |-> {"ST"}, rows |-> <<>>]
GoodMetadata ==
    [index |-> <<1>>, columns |-> {"Country"}, rows |-> <<[c \in {"Country"} |-> "b"]>>]
GoodDistances == [matrix |-> UnitMatrix(2), index |-> <<1, 2>>]

FileContent(kind, file) ==
    IF kind = "genotype" THEN (IF file = "good" THEN GoodGenotypes ELSE EmptyGenotypes)
    ELSE IF kind = "metadata" THEN GoodMetadata
    ELSE GoodDistances

Notification(kind, type) == [kind |-> kind, type |-> type]

\* X.from_flavour(Path(f["datapath"]), input.X_flavour())
ReaderFor(kind, flavour) ==
    IF kind = "genotype" THEN GenotypeFromFlavour(flavour)
    ELSE IF kind = "metadata" THEN MetaFromFlavour(flavour)
    ELSE DistFromFlavour(flavour)

\* reactive_genotypes, reactive_metadata, reactive_distances: the exception
\* raised, the value returned, the notification shown
RunCalc(a, kind) ==
    IF a.uploads[kind] = "none"
    THEN [raised |-> None, value |-> None, shown |-> {}]
    ELSE LET r == ReaderFor(kind, a.flavours[kind]) IN
         IF r.raised # None
         THEN [raised |-> r.raised, value |-> None, shown |-> {}]
         ELSE IF a.uploads[kind] = "bad"
         THEN [raised |-> None, value |-> None, shown |-> {Notification(kind, "error")}]
         ELSE [raised |-> None, value |-> Some(FileContent(kind, a.uploads[kind])),
               shown |-> {Notification(kind, "message")}]

\* Dataset(genotypes, metadata, distances), the arguments the server gives:
\* __init__ as in DatasetInit, with the default name and no column overrides
NewDataset(g, m, d) ==
    LET stamped == SetColumn(g, "Dataset", [i \in 1..Len(g.index) |-> DefaultArgs.name])
        joined == IF m # None THEN JoinLeft(stamped, m.some) ELSE stamped
        missing == IF d # None THEN MissingSamples(joined.index, d.some.index) ELSE <<>>
    IN
    IF missing # <<>>
    THEN Raised(DatasetError(missing[1]))
    ELSE LET table == IF d # None THEN Reindex(joined, d.some.index) ELSE joined
             csr == IF d # None THEN Some(d.some.matrix) ELSE None
             mcols == (IF m # None THEN m.some.columns ELSE {}) \cup {"Dataset"}
             assigned == [_data |-> table, distances |-> csr, metadata_columns |-> mcols]
         IN
         IF "qc_metrics" \in DOMAIN assigned
         THEN Returned(Merge(assigned,
                  [genotype_columns |-> (stamped.columns \ assigned.qc_metrics) \ mcols]))
         ELSE Raised(AttributeError("qc_metrics"))

\* what main_server sets up for a session: the reactive value starts as
\* None and both effects are due
NewSession ==
    [uploads |-> [genotype |-> "none", metadata |-> "none", distance |-> "none"],
     flavours |-> [genotype |-> "pw-kleborate", metadata |-> "pw-metadata",
                   distance |-> "pw-kleborate"],
     dirty |-> Range(Kinds),
     pending |-> <<"_create_dataset", "_toggle_panels_on_load">>,
     reactive_dataset |-> None,
     previous |-> None,
     ran |-> {},
     notifications |-> {},
     constructed |-> FALSE,
     sidebar |-> None,
     upload_panel |-> None,
     clicked |-> None,
     session |-> "open"]

\* either a process about to serve the application (pc = "app_start", with
\* the third-party packages it can import), or the handlers that
\* main_server defines, given a session as main_server sets it up
\* (pc = "app"): the handlers are checked on that session, as methods are
\* checked on a receiver, since no run of MainServer below opens one
AppStart ==
    /\ \/ pc = "app_start" /\ app \in [importable : SUBSET ThirdParty]
       \/ pc = "app" /\ app = NewSession
    /\ raised = None /\ reader = None /\ cli = None /\ objects = None /\ LateIdle
    /\ WilsonIdle /\ PrevIdle /\ DatasetIdle

\* serving the application: `import pathogenx.app` (the package first, then
\* app/__init__.py), then main_server for the session
MainServer ==
    /\ pc = "app_start"
    /\ LET package == RESOURCES(app.importable)
           imported == IF package.raised # None THEN package
                       ELSE ImportApp(app.importable)
       IN IF imported.raised # None
          THEN /\ pc' = "app_failed"
               /\ raised' = imported.raised
               /\ app' = app
          ELSE /\ pc' = "app"
               /\ raised' = raised
               /\ app' = NewSession
    /\ UNCHANGED <<wilsonVars, prevVars, datasetVars, reader, cli, objects, lateVars>>

\* no process serves a session: the import raises whatever is installed
NoSessionServed ==
    /\ pc = "app_failed" => raised # None /\ raised.type \in {"ImportError", "NameError"}
    /\ pc = "app" /\ app = NewSession => raised = None

AppIdle == pc = "app" /\ app.session = "open" /\ app.pending = <<>>

\* what an input sets up before the effects run
Arrived(a) ==
    [a EXCEPT !.previous = a.reactive_dataset, !.ran = {}, !.notifications = {},
              !.constructed = FALSE, !.clicked = None]

\* the user chooses a file (a file input cannot be emptied again) and,
\* perhaps, a flavour: the calc of that input is invalidated and
\* _create_dataset is due
Upload ==
    /\ AppIdle
    /\ \E k \in Range(Kinds) :
         \E f \in UiFiles[k] \ {"none"}, fl \in UiFlavours[k] :
           /\ <<f, fl>> # <<app.uploads[k], app.flavours[k]>>
           /\ app' = [Arrived(app) EXCEPT !.uploads[k] = f, !.flavours[k] = fl,
                                          !.dirty = app.dirty \cup {k},
                                          !.pending = <<"_create_dataset">>]
    /\ UNCHANGED <<pc, raised, wilsonVars, prevVars, datasetVars, reader, cli, objects, lateVars>>

\* the calcs an effect's event trigger runs, in order, up to the first that
\* raises: only an invalidated calc runs again
Executed(a) ==
    LET raising == {i \in 1..Len(Kinds) :
                      Kinds[i] \in a.dirty /\ RunCalc(a, Kinds[i]).raised # None}
        last == IF raising = {} THEN Len(Kinds) ELSE MinOf(raising)
    IN [kinds |-> {Kinds[i] : i \in 1..last} \cap a.dirty,
        raised |-> IF raising = {} THEN None ELSE RunCalc(a, Kinds[last]).raised]

\* an exception leaves an effect: the session ends
EffectError(a, e) ==
    /\ raised' = e
    /\ app' = [a EXCEPT !.session = "closed", !.pending = <<>>]

\* reactive.event(..., ignore_none=True): when every value the event names
\* is None the decorated function is not run
IgnoredEvent(values) == \A i \in 1..Len(values) : values[i] = None

\* reactive_dataset.set(value): the effect that watches the value is due
\* when the value is another one
SetDataset(a, value) ==
    [a EXCEPT !.reactive_dataset = value,
              !.pending = IF value # a.reactive_dataset
                          THEN Append(Tail(a.pending), "_toggle_panels_on_load")
                          ELSE Tail(a.pending)]

\* _create_dataset, with the calcs its event names
CreateDataset ==
    /\ pc = "app" /\ app.session = "open"
    /\ app.pending # <<>> /\ Head(app.pending) = "_create_dataset"
    /\ LET ex == Executed(app)
           ran == [app EXCEPT !.dirty = app.dirty \ ex.kinds,
                              !.ran = app.ran \cup ex.kinds,
                              !.notifications =
                                  app.notifications \cup
                                  UNION {RunCalc(app, k).shown : k \in ex.kinds}]
           g == RunCalc(app, "genotype").value
           m == RunCalc(app, "metadata").value
           d == RunCalc(app, "distance").value
       IN
       IF ex.raised # None
       THEN EffectError(ran, ex.raised)
       ELSE IF IgnoredEvent(<<g, m, d>>)
       THEN /\ app' = [ran EXCEPT !.pending = Tail(ran.pending)]
            /\ raised' = raised
       ELSE IF g = None \/ g.some.index = <<>>
       THEN /\ app' = SetDataset(ran, None)
            /\ raised' = raised
       ELSE LET dataset == NewDataset(g.some, m, d)
                built == [ran EXCEPT !.constructed = TRUE]
            IN IF dataset.raised # None
               THEN EffectError(built, dataset.raised)
               ELSE /\ app' = SetDataset(built, dataset.value)
                    /\ raised' = raised
    /\ UNCHANGED <<pc, wilsonVars, prevVars, datasetVars, reader, cli, objects, lateVars>>

\* _toggle_panels_on_load
TogglePanelsOnLoad ==
    /\ pc = "app" /\ app.session = "open"
    /\ app.pending # <<>> /\ Head(app.pending) = "_toggle_panels_on_load"
    /\ LET d == app.reactive_dataset IN
       IF IgnoredEvent(<<d>>)
       THEN app' = [app EXCEPT !.pending = Tail(app.pending)]
       ELSE IF Len(d.some._data.index) = 0
       THEN app' = [app EXCEPT !.sidebar = Some(FALSE), !.upload_panel = Some(FALSE),
                               !.pending = Tail(app.pending)]
       ELSE app' = [app EXCEPT !.sidebar = Some(TRUE), !.upload_panel = Some(TRUE),
                               !.pending = Tail(app.pending)]
    /\ UNCHANGED <<pc, raised, wilsonVars, prevVars, datasetVars, reader, cli, objects, lateVars>>

\* the action buttons the server names; their functions carry
\* reactive.event without reactive.effect, so no effect is due
Buttons == {"calc_clusters", "reset_uploads"}

\* _calculate_clusters and _reset_uploads: the input arrives and nothing runs
Click ==
    /\ AppIdle
    /\ \E b \in Buttons :
         /\ app.clicked # Some(b)
         /\ app' = [Arrived(app) EXCEPT !.clicked = Some(b)]
    /\ UNCHANGED <<pc, raised, wilsonVars, prevVars, datasetVars, reader, cli, objects, lateVars>>

AppNext == MainServer \/ Upload \/ CreateDataset \/ TogglePanelsOnLoad \/ Click

SpecApp == AppStart /\ [][AppNext]_vars

\* the effects that were due have run, or the session has ended
AppSettled == pc = "app" /\ app.pending = <<>>

\* the file of input k was read since the last input and gave no table
ParseFailed(k) ==
    /\ k \in app.ran
    /\ app.uploads[k] # "none"
    /\ RunCalc(app, k).value = None

NoLoadCompletes ==
    [][CreateDataset /\ app'.constructed
         => /\ app'.session = "closed"
            /\ raised' = AttributeError("qc_metrics")
            /\ app'.reactive_dataset = app.reactive_dataset]_vars

\* no session gets as far as a load of a genotype file with a distance file:
\* the distance upload ends it in DistFile.from_flavour
NoLoadWithDistances ==
    pc = "app" => ~(app.uploads.genotype = "good" /\ app.uploads.distance # "none")

\* no run of the server stores a Dataset
NoDatasetStored == pc = "app" => app.reactive_dataset = None

\* the page as the user sees it: app/ui.py builds the sidebar closed and the
\* upload section open, an update call shows or hides what it names
SidebarShown == IF app.sidebar = None THEN FALSE ELSE app.sidebar.some
UploadShown == IF app.upload_panel = None THEN TRUE ELSE app.upload_panel.some

\* with no dataset loaded the sidebar is hidden and the upload section is
\* shown
NoDatasetPanels ==
    (AppSettled /\ app.reactive_dataset = None) => ~SidebarShown /\ UploadShown

\* the toggle never calls update_sidebar or update_accordion: its event is
\* ignored while the value is None, and no other value is ever stored
PanelsNeverUpdated == pc = "app" => app.sidebar = None /\ app.upload_panel = None

ClickChangesNothing ==
    [][Click => /\ app'.uploads = app.uploads
                /\ app'.pending = <<>>
                /\ app'.notifications = {}]_vars

(***************************************************************************)
(* The data accessors (Dataset.data, CalculatorResult.data).               *)
(*                                                                         *)
(* objects is a heap of tables and the references into it:                 *)
(*   heap      the tables that exist, by identity (position)               *)
(*   dataset   the identity of the Dataset's _data                         *)
(*   result    the identity of the PrevalenceResult's _data, or None       *)
(*   views     the tables the caller holds: where it got it (of: the       *)
(*             accessor that returned it, or "caller" for a table of its   *)
(*             own), its identity (id), its contents when the caller got   *)
(*             it (was), whether the caller has assigned into it           *)
(*             (mutated) and whether it has given it to the data setter    *)
(*             of the result (given)                                       *)
(*   original  the contents the internal tables were given: the Dataset's  *)
(*             at the start, the result's at the start or through the      *)
(*             setter                                                      *)
(* The Dataset is an instance as __init__ leaves it, with _data assigned.  *)
(***************************************************************************)
MaxFrameRows == 2
MaxViews == 3

EmptyFrame == [index |-> <<>>, columns |-> {}, rows |-> <<>>]      \* pd.DataFrame()

Frames ==
    UNION {{[index |-> SampleIndex(n), columns |-> {"ST"}, rows |-> rows] :
               rows \in [1..n -> [{"ST"} -> {"a", "b"}]]} : n \in 0..MaxFrameRows}

\* the tables the two objects start with
StartFrames == {f \in Frames : \A i \in 1..Len(f.rows) : f.rows[i]["ST"] = "a"}

\* a frame and a reference to it that shares it with the owner (a variant
\* used to test C20)
CopyShared(o, id) == [heap |-> o.heap, id |-> id]

\* frame.copy(): a new table with the same contents
Copy(o, id) == [heap |-> Append(o.heap, o.heap[id]), id |-> Len(o.heap) + 1]

\* Dataset.data
DatasetData(o) == Copy(o, o.dataset)

\* CalculatorResult.data
ResultData(o) ==
    IF o.result # None
    THEN Copy(o, o.result.some)
    ELSE [heap |-> Append(o.heap, EmptyFrame), id |-> Len(o.heap) + 1]

\* CalculatorResult.__len__
ResultLen(o) == IF o.result = None THEN 0 ELSE Len(o.heap[o.result.some].rows)

\* a Dataset and a PrevalenceResult, the latter without data or with a table
\* of its own that holds what the Dataset's holds
ObjectsArgs ==
    /\ pc = "objects"
    /\ \E d \in StartFrames :
         \/ objects = [heap |-> <<d>>, dataset |-> 1, result |-> None, views |-> <<>>,
                       original |-> [dataset |-> d, result |-> None]]
         \/ objects = [heap |-> <<d, d>>, dataset |-> 1, result |-> Some(2), views |-> <<>>,
                       original |-> [dataset |-> d, result |-> Some(d)]]
    /\ raised = None /\ reader = None /\ cli = None /\ app = None /\ LateIdle
    /\ WilsonIdle /\ PrevIdle /\ DatasetIdle

\* the caller holds what an accessor returned; was is the internal table at
\* the call (an empty table for a result without data)
Returns(o, of, got) ==
    [o EXCEPT !.heap = got.heap,
              !.views = Append(o.views,
                  [of |-> of, id |-> got.id,
                   was |-> IF of = "dataset" THEN o.heap[o.dataset]
                           ELSE IF o.result # None THEN o.heap[o.result.some]
                           ELSE EmptyFrame,
                   mutated |-> FALSE, given |-> FALSE])]

\* view = dataset.data
GetDatasetData ==
    /\ pc = "objects"
    /\ Len(objects.views) < MaxViews
    /\ objects' = Returns(objects, "dataset", DatasetData(objects))
    /\ UNCHANGED <<pc, raised, wilsonVars, prevVars, datasetVars, reader, cli, app, lateVars>>

\* view = result.data
GetResultData ==
    /\ pc = "objects"
    /\ Len(objects.views) < MaxViews
    /\ objects' = Returns(objects, "result", ResultData(objects))
    /\ UNCHANGED <<pc, raised, wilsonVars, prevVars, datasetVars, reader, cli, app, lateVars>>

\* the tables a caller makes to give to the setter
SetterFrames ==
    {f \in Frames : Len(f.rows) = MaxFrameRows /\ \A i \in 1..Len(f.rows) : f.rows[i]["ST"] = "b"}

\* result.data = value (the setter): the result keeps the object it is given,
\* without copying it; value is None, a table the caller already holds, or a
\* new table of the caller's
SetResultData ==
    /\ pc = "objects"
    /\ \/ /\ objects.result # None
          /\ objects' = [objects EXCEPT !.result = None, !.original.result = None]
       \/ \E v \in 1..Len(objects.views) :
            LET id == objects.views[v].id IN
            /\ objects.result # Some(id)
            /\ objects' = [objects EXCEPT !.result = Some(id),
                                          !.original.result = Some(objects.heap[id]),
                                          !.views[v].given = TRUE]
       \/ \E t \in SetterFrames :
            LET id == Len(objects.heap) + 1 IN
            /\ Len(objects.views) < MaxViews
            /\ objects' = [objects EXCEPT
                  !.heap = Append(objects.heap, t),
                  !.result = Some(id),
                  !.original.result = Some(t),
                  !.views = Append(objects.views,
                                   [of |-> "caller", id |-> id, was |-> t,
                                    mutated |-> FALSE, given |-> TRUE])]
    /\ UNCHANGED <<pc, raised, wilsonVars, prevVars, datasetVars, reader, cli, app, lateVars>>

\* view[col] = 'z' on a table the caller holds; when it is the table the
\* result was last given, the caller has changed the result's data itself
MutateView ==
    /\ pc = "objects"
    /\ \E v \in 1..Len(objects.views), col \in {"ST"} :
         LET id == objects.views[v].id
             t == objects.heap[id]
             marked == SetColumn(t, col, [i \in 1..Len(t.rows) |-> "z"])
         IN /\ ~(col \in t.columns /\ \A i \in 1..Len(t.rows) : t.rows[i][col] = "z")
            /\ objects' = [objects EXCEPT
                  !.heap[id] = marked,
                  !.views[v].mutated = TRUE,
                  !.original.result =
                      IF objects.views[v].given /\ objects.result = Some(id)
                      THEN Some(marked) ELSE objects.original.result]
    /\ UNCHANGED <<pc, raised, wilsonVars, prevVars, datasetVars, reader, cli, app, lateVars>>

ObjectsNext == GetDatasetData \/ GetResultData \/ SetResultData \/ MutateView

SpecObjects == ObjectsArgs /\ [][ObjectsNext]_vars

\* the tables the accessors returned and the caller has not handed back
Returned20 ==
    {v \in 1..Len(objects.views) :
        objects.views[v].of # "caller" /\ ~objects.views[v].given}

\* C20: the data accessors of Dataset and PrevalenceResult return
\* independent copies: assigning into one returned table changes neither
\* another returned table nor the object's internal table (the internal
\* tables hold what they were given, and every returned table the caller did
\* not assign into holds what the accessor returned), and a PrevalenceResult
\* without data returns an empty table and has length 0.
C20_AccessorsReturnCopies ==
    pc = "objects" =>
        /\ objects.heap[objects.dataset] = objects.original.dataset
        /\ objects.result # None =>
               objects.heap[objects.result.some] = objects.original.result.some
        /\ \A v \in Returned20 :
               /\ objects.views[v].id # objects.dataset
               /\ objects.result # Some(objects.views[v].id)
               /\ ~objects.views[v].mutated =>
                      objects.heap[objects.views[v].id] = objects.views[v].was
        /\ objects.result = None => ResultLen(objects) = 0

\* a returned table was assigned into, a later call of the same accessor
\* returned another one, and a result without data returned an empty table
C20_Witness ==
    /\ pc = "objects"
    /\ objects.result = None
    /\ \E v, w, e \in 1..Len(objects.views) :
         /\ v < w
         /\ objects.views[v].of = "dataset" /\ objects.views[w].of = "dataset"
         /\ objects.views[v].mutated /\ ~objects.views[w].mutated
         /\ objects.heap[objects.views[v].id] # objects.original.dataset
         /\ objects.original.dataset.rows # <<>>
         /\ objects.views[e].of = "result" /\ ~objects.views[e].mutated
         /\ objects.heap[objects.views[e].id] = EmptyFrame

(***************************************************************************)
(* The optional-dependency guard (pathogenx/__init__.py).                  *)
(*                                                                         *)
(* wrapped is one call of a function decorated with require(packages...):    *)
(*   importable          the environment of the import                     *)
(*   packages            the names given to require                        *)
(*   optional_packages   RESOURCES.optional_packages                       *)
(*   args                the arguments of the call                         *)
(*   calls               the argument lists the decorated function got     *)
(*   warnings            the warnings issued                               *)
(*   returned            what the call returned (None before the call)     *)
(***************************************************************************)
MaxPackages == 2

PackageNames == {"pathogenx.app", "numpy", "plotly"}

\* the first missing name only (a variant used to test C21)
MissingDepsFirst(packages, optional) ==
    LET all == SelectSeq(packages, LAMBDA dep : dep \notin optional)
    IN IF all = <<>> THEN <<>> ELSE <<all[1]>>

\* [dep for dep in packages if dep not in RESOURCES.optional_packages]
MissingDeps(packages, optional) == SelectSeq(packages, LAMBDA dep : dep \notin optional)

DependencyWarning(func, missing_deps) ==
    [category |-> "DependencyWarning", func |-> func, missing |-> missing_deps]

\* the decorated function: it reports what it was given
Func(a) == [got |-> a]

WrappedArgs == {<<>>, <<"x">>, <<"y">>, <<"x", "y">>}

RequireArgs ==
    /\ pc = "import"
    /\ \E packages \in SeqsUpTo(PackageNames, MaxPackages),
          importable \in SUBSET ThirdParty,
          a \in WrappedArgs :
         wrapped = [importable |-> importable, packages |-> packages,
                    optional_packages |-> {},
                    args |-> a, calls |-> <<>>, warnings |-> <<>>, returned |-> None]
    /\ raised = None /\ reader = None /\ cli = None /\ app = None /\ objects = None
    /\ plotter = None
    /\ WilsonIdle /\ PrevIdle /\ DatasetIdle

\* `import pathogenx`, line 147: RESOURCES is built, or the import raises and
\* there is no require to call
ImportPathogenx ==
    /\ pc = "import"
    /\ LET package == RESOURCES(wrapped.importable) IN
       IF package.raised # None
       THEN /\ pc' = "import_failed"
            /\ raised' = package.raised
            /\ wrapped' = wrapped
       ELSE /\ pc' = "require_args"
            /\ raised' = None
            /\ wrapped' = [wrapped EXCEPT
                              !.optional_packages = package.value.some.optional_packages]
    /\ UNCHANGED <<wilsonVars, prevVars, datasetVars, reader, cli, app, objects,
                   plotter>>

\* wrapper(*args, **kwargs)
Wrapper ==
    /\ pc = "require_args"
    /\ pc' = "required"
    /\ LET missing_deps == MissingDeps(wrapped.packages, wrapped.optional_packages) IN
       IF missing_deps # <<>>
       THEN wrapped' = [wrapped EXCEPT
                           !.warnings = <<DependencyWarning("func", missing_deps)>>,
                           !.returned = Some(None)]
       ELSE wrapped' = [wrapped EXCEPT
                           !.calls = Append(wrapped.calls, wrapped.args),
                           !.returned = Some(Func(wrapped.args))]
    /\ UNCHANGED <<raised, wilsonVars, prevVars, datasetVars, reader, cli, app, objects,
                   plotter>>

RequireNext == ImportPathogenx \/ Wrapper

SpecRequire == RequireArgs /\ [][RequireNext]_vars

\* the names given to require that are not optional packages
MissingNames == Range(wrapped.packages) \ wrapped.optional_packages

\* C21: a call of a function wrapped by require(names...): if a name is not in
\* RESOURCES.optional_packages, one DependencyWarning listing exactly the
\* missing names is issued, the function is not invoked and the call returns
\* None; otherwise the function is invoked once with the same arguments and
\* its result is returned unchanged.
C21_RequireGuards ==
    pc = "required" =>
        IF MissingNames # {}
        THEN /\ Len(wrapped.warnings) = 1
             /\ wrapped.warnings[1].category = "DependencyWarning"
             /\ Range(wrapped.warnings[1].missing) = MissingNames
             /\ wrapped.calls = <<>>
             /\ wrapped.returned = Some(None)
        ELSE /\ wrapped.warnings = <<>>
             /\ wrapped.calls = <<wrapped.args>>
             /\ wrapped.returned = Some(Func(wrapped.args))

\* two names are missing and the function, called with arguments, was not invoked
C21_Witness ==
    /\ pc = "required"
    /\ Cardinality(MissingNames) = 2
    /\ wrapped.calls = <<>>
    /\ wrapped.args # <<>>

(***************************************************************************)
(* The plotters (app/plotters.py).                                         *)
(*                                                                         *)
(* plotter is one plot() call:                                             *)
(*   result   the PrevalenceResult given: stratified_by, denominator and   *)
(*            the rows of its data (the stratum columns, count.raw and     *)
(*            prop.raw; a proportion is a number of halves)                *)
(*   cls      the plotter class whose plot() was called (None before)      *)
(*   figure   the data of the figure returned, or None                     *)
(***************************************************************************)
MaxStrata == 3
MaxPlotRows == 2

PlotColumns == {"Country", "K_locus"}
PlotCells == [Country |-> {"FR", "DE", NaN}, K_locus |-> {"a"}]

\* the proportions 0.0, 0.5 and 1.0, in halves
Halves == 2
PlotRows ==
    [Country : PlotCells.Country, K_locus : PlotCells.K_locus,
     count_raw : {1}, prop_raw : 0..Halves]

\* the name column of _WORLD, in row order
WorldNames == <<"FR", "IT">>

KeyError(col) == [type |-> "KeyError", msg |-> "{col}", col |-> col]
StopIteration == [type |-> "StopIteration", msg |-> ""]
PlotterValueError(cls) ==
    [type |-> "ValueError", msg |-> "{cls} requires results stratified by ...", cls |-> cls]

\* a ValueError raised inside pandas, with its message
PandasValueError(msg, col) == [type |-> "ValueError", msg |-> msg, col |-> col]

PlotterArgs ==
    /\ pc = "plot_args"
    /\ \E stratified_by \in SeqsUpTo(PlotColumns, MaxStrata),
          denominator \in {None, Some(""), Some("Country"), Some("K_locus")},
          rows \in SeqsUpTo(PlotRows, MaxPlotRows) :
         plotter = [result |-> [stratified_by |-> stratified_by,
                                denominator |-> denominator, data |-> rows],
                    cls |-> None, figure |-> None]
    /\ raised = None /\ reader = None /\ cli = None /\ app = None /\ objects = None
    /\ wrapped = None
    /\ WilsonIdle /\ PrevIdle /\ DatasetIdle

\* the key tuples of data.groupby(cols): rows with a missing key are left out
PlotGroupKeys(rows, cols) ==
    {[c \in Range(cols) |-> rows[i][c]] :
        i \in {j \in 1..Len(rows) : \A c \in Range(cols) : rows[j][c] # NaN}}

\* data.groupby(cols)['prop.raw'].sum(), per key
GroupSum(rows, cols, key, field) ==
    LET members == {i \in 1..Len(rows) : \A c \in Range(cols) : rows[i][c] = key[c]}
    IN SumOver(members, [i \in members |-> rows[i][field]])

\* a check that accepts more than two columns, as CoveragePlotter's does (a
\* variant used to test C22)
StrataRejectsFewer(res) ==
    ~TruthyStr(res.denominator) \/ Len(res.stratified_by) < 2

\* StrataPlotter.plot: if not result.denominator or len(result.stratified_by) != 2
StrataRejects(res) ==
    ~TruthyStr(res.denominator) \/ Len(res.stratified_by) # 2

\* CoveragePlotter.plot: if not result.denominator or len(result.stratified_by) < 2
CoverageRejects(res) ==
    ~TruthyStr(res.denominator) \/ Len(res.stratified_by) < 2

Plotted(cls, figure) ==
    /\ plotter' = [plotter EXCEPT !.cls = Some(cls), !.figure = Some(figure)]
    /\ raised' = None

PlotRaised(cls, e) ==
    /\ plotter' = [plotter EXCEPT !.cls = Some(cls)]
    /\ raised' = e

\* StrataPlotter.plot(result): the heatmap has one cell per (y, x) group.
\* groupby([c, c]) gives an index with the level name c twice and
\* reset_index() cannot insert the second one.
StrataPlot ==
    /\ pc = "plot_args"
    /\ pc' = "plotted"
    /\ LET r == plotter.result IN
       IF StrataRejects(r)
       THEN PlotRaised("StrataPlotter", PlotterValueError("StrataPlotter"))
       ELSE IF r.stratified_by[1] = r.stratified_by[2]
       THEN PlotRaised("StrataPlotter",
                       PandasValueError("cannot insert {col}, already exists",
                                        r.stratified_by[1]))
       ELSE LET cols == <<r.stratified_by[1], r.stratified_by[2]>>
                keys == PlotGroupKeys(r.data, cols)
            IN Plotted("StrataPlotter",
                       [kind |-> "Heatmap",
                        z |-> [k \in keys |-> GroupSum(r.data, cols, k, "prop_raw")]])
    /\ UNCHANGED <<wilsonVars, prevVars, datasetVars, reader, cli, app, objects, wrapped>>

\* two rows of data have the same (denominator, x) pair: the index made by
\* set_index([denominator_col, x_col]) is not unique
NonUniqueIndex(rows, den, x) ==
    \E i, j \in 1..Len(rows) :
        i # j /\ rows[i][den] = rows[j][den] /\ rows[i][x] = rows[j][x]

\* the rows reindex keeps: those whose x value is in x_order, the keys of
\* data.groupby(x_col), which leave out a missing x
InXOrder(rows, x) == SelectSeq(rows, LAMBDA row : row[x] # NaN)

\* CoveragePlotter.plot(result): one trace per value of the denominator
\* column, ending at the summed proportion of its rows that are in x_order
CoveragePlot ==
    /\ pc = "plot_args"
    /\ pc' = "plotted"
    /\ LET r == plotter.result
           others == SelectSeq(r.stratified_by, LAMBDA c : c # r.denominator.some)
       IN
       IF CoverageRejects(r)
       THEN PlotRaised("CoveragePlotter", PlotterValueError("CoveragePlotter"))
       ELSE IF others = <<>>
       THEN PlotRaised("CoveragePlotter", StopIteration)
       ELSE IF r.denominator.some \notin Range(r.stratified_by)
       THEN PlotRaised("CoveragePlotter", KeyError(r.denominator.some))
       ELSE IF NonUniqueIndex(r.data, r.denominator.some, others[1])
       THEN PlotRaised("CoveragePlotter",
                       PandasValueError("cannot handle a non-unique multi-index!",
                                        r.denominator.some))
       ELSE LET cols == <<r.denominator.some>>
                kept == InXOrder(r.data, others[1])
                keys == PlotGroupKeys(kept, cols)
            IN Plotted("CoveragePlotter",
                       [kind |-> "Scatter",
                        z |-> [k \in keys |-> GroupSum(kept, cols, k, "prop_raw")]])
    /\ UNCHANGED <<wilsonVars, prevVars, datasetVars, reader, cli, app, objects, wrapped>>

\* the rows of map_data whose geo_col is name, as (name, Infections, Coverage)
MapRows(res, name) ==
    IF ~TruthyStr(res.denominator)
    THEN \* data.rename(columns={'prop.raw': 'Coverage', 'count.raw': 'Infections'})
         LET geo_col == res.stratified_by[1]
             hits == SelectSeq(res.data, LAMBDA row : row[geo_col] = name)
         IN [i \in 1..Len(hits) |->
                [name |-> name, Infections |-> hits[i].count_raw,
                 Coverage |-> hits[i].prop_raw]]
    ELSE \* data.groupby(geo_col).agg(sum).assign(Coverage=clip(upper=1.0))
         LET cols == <<res.denominator.some>>
             key == [c \in Range(cols) |-> name]
         IN IF key \in PlotGroupKeys(res.data, cols)
            THEN <<[name |-> name,
                    Infections |-> GroupSum(res.data, cols, key, "count_raw"),
                    Coverage |-> Min(GroupSum(res.data, cols, key, "prop_raw"), Halves)]>>
            ELSE <<>>

\* self.world.merge(map_data, how="inner", left_on=world_col, right_on=geo_col),
\* over the first n polygons
RECURSIVE MergeInner(_, _)
MergeInner(res, n) ==
    IF n = 0 THEN <<>>
    ELSE MergeInner(res, n - 1) \o MapRows(res, WorldNames[n])

\* MapPlotter.plot(result): the choropleth has one location per merged row
MapPlot ==
    /\ pc = "plot_args"
    /\ pc' = "plotted"
    /\ LET r == plotter.result
           single == ~TruthyStr(r.denominator) /\ Len(r.stratified_by) = 1
           nested == TruthyStr(r.denominator) /\ Len(r.stratified_by) > 1
       IN
       IF ~single /\ ~nested
       THEN PlotRaised("MapPlotter", PlotterValueError("MapPlotter"))
       ELSE IF nested /\ r.denominator.some \notin Range(r.stratified_by)
       THEN PlotRaised("MapPlotter", KeyError(r.denominator.some))
       ELSE Plotted("MapPlotter",
                    [kind |-> "Choroplethmapbox",
                     z |-> MergeInner(r, Len(WorldNames))])
    /\ UNCHANGED <<wilsonVars, prevVars, datasetVars, reader, cli, app, objects, wrapped>>

PlotterNext == StrataPlot \/ CoveragePlot \/ MapPlot

SpecPlotters == PlotterArgs /\ [][PlotterNext]_vars

PlotDone(cls) == pc = "plotted" /\ plotter.cls = Some(cls)

InvalidInput(cls) == raised # None /\ raised = PlotterValueError(cls)

\* the result is stratified by exactly two columns and has a denominator
TwoColumnsWithDenominator ==
    Len(plotter.result.stratified_by) = 2 /\ TruthyStr(plotter.result.denominator)

\* C22: StrataPlotter.plot raises the invalid-input error for every result
\* that is not stratified by exactly two columns with a denominator;
\* CoveragePlotter.plot raises it for every result stratified by fewer than
\* two columns or without a denominator; neither raises it for a two-column
\* result with a denominator.
C22_PlotterPreconditions ==
    /\ PlotDone("StrataPlotter") =>
           (InvalidInput("StrataPlotter") <=> ~TwoColumnsWithDenominator)
    /\ PlotDone("CoveragePlotter") =>
           /\ (Len(plotter.result.stratified_by) < 2
                 \/ ~TruthyStr(plotter.result.denominator))
                   => InvalidInput("CoveragePlotter")
           /\ TwoColumnsWithDenominator => ~InvalidInput("CoveragePlotter")

\* a three-column result with a denominator was refused by StrataPlotter
C22_Witness ==
    /\ PlotDone("StrataPlotter")
    /\ InvalidInput("StrataPlotter")
    /\ Len(plotter.result.stratified_by) = 3
    /\ TruthyStr(plotter.result.denominator)

\* the coverage values of the figure's rows
Plotted01(zs) == \A i \in 1..Len(zs) : 0 <= zs[i].Coverage /\ zs[i].Coverage <= Halves

MapPlotsMatchedOnly ==
    (PlotDone("MapPlotter") /\ raised = None) =>
        LET zs == plotter.figure.some.z IN
        /\ \A i \in 1..Len(zs) : MapRows(plotter.result, zs[i].name) # <<>>
        /\ Plotted01(zs)

(***************************************************************************)
(* Claims on Dataset.calculate_clusters (continued) and on Dataset.__init__ *)
(***************************************************************************)
VariablesDone == pc = "clustered" /\ call.method = "variables" /\ raised = None

\* the 1-based rank of sample i's ST among the ST values in order of first
\* appearance in the table
FirstSeenOrdinal(i) ==
    LET first == MinOf({j \in 1..NSamples : ST(j) = ST(i)})
    IN Cardinality({ST(j) : j \in 1..first})

\* the 1-based rank of sample i's ST among the sorted ST values
SortedOrdinal(i) ==
    PosOf(SortedKeys(GroupKeys(self._data.rows, <<"ST">>)), <<ST(i)>>)

VariablesSortedOrder ==
    (VariablesDone /\ call.group_by # None /\ \A i \in 1..NSamples : ST(i) # NaN) =>
        \A i \in 1..NSamples : Label(i) = ClusterLabel(SortedOrdinal(i))

\* without group_by every sample has its own label
VariablesSingletons ==
    (VariablesDone /\ call.group_by = None) =>
        \A i \in 1..NSamples : Label(i) = ClusterLabel(i)

\* the call made in this step is one that must fail
FailingCall ==
    /\ pc = "dataset" /\ pc' = "clustered"
    /\ \/ call'.method = "connected_components" /\ self.distances = None
       \/ call'.method \notin {"connected_components", "variables"}

\* C24: calculate_clusters('connected_components') on a Dataset without a
\* distance matrix raises DatasetError, and a method other than
\* 'connected_components' and 'variables' raises ValueError; in both cases
\* the merged table, with any Cluster column it had, is as before the call.
C24_FailedClusteringKeepsTable ==
    [][FailingCall =>
          /\ raised' # None
          /\ raised'.type = IF call'.method = "connected_components"
                            THEN "DatasetError" ELSE "ValueError"
          /\ self'._data = self._data
          /\ genotypes' = genotypes]_vars

\* an unknown method was refused on a table that has a Cluster column
C24_Witness ==
    /\ pc = "clustered"
    /\ call.method = "kmeans"
    /\ raised # None
    /\ raised.type = "ValueError"
    /\ "Cluster" \in self._data.columns
    /\ \A i \in 1..NSamples : Label(i) = "old"
    /\ warnings = <<"DatasetWarning">>

\* the distance pair names exactly the samples of the genotype table
SameSamples == distances # None /\ Range(distances.some.index) = TableSamples

\* C27: when a Dataset is constructed with a distance pair that passes the
\* completeness check, the samples of the merged table are those of the
\* genotype table and len(dataset) is the number of genotype rows, also when
\* the distance index has samples that are not in the genotype table.
C27_ReindexKeepsSamples ==
    (pc = "dataset" /\ distances # None /\ ~LacksSample) =>
        /\ Range(self._data.index) = TableSamples
        /\ Len(self._data.rows) = Len(genotypes.index)

\* the same holds when the distance pair has no sample of its own; otherwise
\* the table has one row per sample of the distance pair
ReindexFollowsDistances ==
    (pc = "dataset" /\ distances # None /\ ~LacksSample) =>
        /\ self._data.index = distances.some.index
        /\ SameSamples => Len(self._data.rows) = Len(genotypes.index)

LabelledWithoutMissing ==
    (pc = "clustered" /\ raised = None
       /\ (call.group_by = None \/ \A i \in 1..NSamples : ST(i) # NaN)) =>
        \A i \in 1..NSamples : Label(i) \in {ClusterLabel(n) : n \in 1..NSamples}

\* C29: constructing a Dataset leaves the caller's arguments unchanged: the
\* genotype table passed in gets no 'Dataset' column and a metadata_columns
\* set passed in keeps its members.
C29_ArgumentsUnchanged ==
    (pc = "dataset" /\ ~LacksSample) =>
        /\ "Dataset" \notin genotypes.columns
        /\ args.metadata_columns # None => "Dataset" \notin args.metadata_columns.some

\* the caller's table has the column after every construction, and a
\* non-empty metadata_columns set has the new member
ArgumentsStamped ==
    pc = "dataset" =>
        /\ "Dataset" \in genotypes.columns
        /\ (~LacksSample /\ TruthySet(args.metadata_columns))
              => "Dataset" \in args.metadata_columns.some

\* a later calculate_clusters writes its Cluster column into the caller's
\* table when __init__ kept that table as self._data
ClusterColumnShared ==
    (pc = "clustered" /\ raised = None /\ SharesGenotypes) =>
        "Cluster" \in genotypes.columns

\* the command line passes the argument parser
CliAccepted ==
    /\ cli.argv.genotype_flavour \in GenotypeFlavours
    /\ cli.argv.metadata_flavour \in MetaFlavours
    /\ cli.argv.distance_flavour \in DistFlavours
    /\ cli.argv.stratify_by # None

Before(steps, x, y) ==
    \E i, j \in 1..Len(steps) : i < j /\ steps[i] = x /\ steps[j] = y

\* C25: in a 'prevalence' run the Dataset is built, then clustered, then
\* the calculator runs, then the table is written; the clustering step is
\* run, before the calculator, if and only if a distance file was given.
C25_CliStepOrder ==
    (pc = "cli_done" /\ CliAccepted) =>
        /\ raised = None
        /\ Before(cli.steps, "Dataset.from_files", "PrevalenceCalculator.calculate")
        /\ Before(cli.steps, "PrevalenceCalculator.calculate", "to_csv")
        /\ cli.argv.distances # None <=>
               Before(cli.steps, "Dataset.calculate_clusters", "PrevalenceCalculator.calculate")
        /\ cli.argv.distances # None =>
               Before(cli.steps, "Dataset.from_files", "Dataset.calculate_clusters")

\* no run gets past the construction of the Dataset
CliStopsAtDataset ==
    pc = "cli_done" =>
        /\ "Dataset.calculate_clusters" \notin Range(cli.steps)
        /\ "PrevalenceCalculator.calculate" \notin Range(cli.steps)
        /\ "to_csv" \notin Range(cli.steps)

(***************************************************************************)
(* Claims about the adjusted columns of PrevalenceCalculator.calculate.    *)
(***************************************************************************)
\* k / n is a number of the interval [0, 1]
InUnitInterval(k, n) == n > 0 /\ 0 <= k /\ k <= n

\* the three orderings of C30 on row i of the result
AdjustedOrdered(i) ==
    /\ result[i]["count.adj"] <= result[i]["count.raw"]
    /\ result[i]["denominator.adj"] <= result[i]["denominator.raw"]
    /\ result[i]["count.adj"] <= result[i]["denominator.adj"]

\* C30: in every row of a result computed with an adjustment column,
\* count.adj <= count.raw, denominator.adj <= denominator.raw and
\* count.adj <= denominator.adj, so that the adjusted proportion
\* count.adj / denominator.adj lies in [0, 1] before clipping, for any table
\* and any denominator choice.
C30_AdjustedWithinRaw ==
    (pc = "calculated" /\ AdjCol(calculator) # None) =>
        \A i \in 1..Len(result) :
            /\ AdjustedOrdered(i)
            /\ InUnitInterval(result[i]["count.adj"], result[i]["denominator.adj"])

\* the orderings alone, and the proportion wherever the adjusted denominator
\* is not zero; with a zero denominator the proportion is 0 / 0
AdjustedOrderedEverywhere ==
    (pc = "calculated" /\ AdjCol(calculator) # None) =>
        \A i \in 1..Len(result) :
            /\ AdjustedOrdered(i)
            /\ IF result[i]["denominator.adj"] > 0
               THEN InUnitInterval(result[i]["count.adj"], result[i]["denominator.adj"])
               ELSE result[i]["count.adj"] = 0 /\ IsNaN(result[i]["prop.adj"])

=============================================================================
